---- MODULE Spec2Model ----
(***************************************************************************)
(* Model of the covid_ct core: mask-similarity metrics (seg_metrics.py),   *)
(* quantification (quantify.py), automatic lung seeding (auto_seed.py),    *)
(* region growing (region_growing.py), resampling (resample.py) and the    *)
(* report of the pipeline (run_pipeline.py).                               *)
(* Every operation is a pure function of its arguments; the state machine  *)
(* draws the arguments in Init and each action applies one operation and   *)
(* stores what it returns in ret.                                          *)
(*                                                                         *)
(* An image is a record [size, spacing, pix]: size and spacing are triples *)
(* and pix maps every voxel index <<x,y,z>> (0-based, as in SimpleITK) to  *)
(* its integer sample.                                                     *)
(*                                                                         *)
(* A floating-point result is kept exact as a record [kind, num, den]:     *)
(*   "ratio"     num/den                                                   *)
(*   "ratio_eps" num/(den + 1e-8)                                          *)
(*   "nan", "inf", "max"   the IEEE values NaN, +Inf and DBL_MAX           *)
(***************************************************************************)
EXTENDS Integers, Sequences, FiniteSets, TLC

VARIABLES pc, ret, a_mask, b_mask, lung_mask, infection_mask, min_cc_vox,
          img, air_hu, seeds, lower, upper, closing_radius, keep_largest,
          fill_holes, out_spacing, args

\* The arguments of the operations: no operation writes to them.
inputs == <<a_mask, b_mask, lung_mask, infection_mask, min_cc_vox, img, air_hu,
            seeds, lower, upper, closing_radius, keep_largest, fill_holes,
            out_spacing, args>>

vars == <<pc, ret, inputs>>

(* ---------------- bounds of the model ---------------- *)

\* Largest number of non-zero voxels in one mask of a pair of input masks.
MaxVox == 2
\* Largest sample value of an input mask (masks are 0/1 or 0/255 in practice).
MaxLabel == 2

\* Largest number of non-zero voxels in the infection mask of percent_infected.
MaxInfVox == 3
\* Largest min_cc_vox handed to percent_infected.
MaxMinCcVox == 3

\* Largest number of voxels below soft-tissue density in a volume handed to
\* auto_lung_seeds.
MaxAirVox == 2

\* Extents (x, y, z) of the volumes the operations are applied to.
Sizes == {<<3, 3, 1>>, <<2, 2, 2>>}
\* Voxel spacings in mm.
Spacings == {<<1, 1, 1>>, <<1, 2, 3>>}

(* ---------------- images ---------------- *)

Grid(size) == (0..(size[1]-1)) \X (0..(size[2]-1)) \X (0..(size[3]-1))

RECURSIVE SubsetsUpTo(_, _)
SubsetsUpTo(G, k) ==
  IF k = 0 THEN {{}}
  ELSE LET P == SubsetsUpTo(G, k-1) IN P \cup {S \cup {v} : S \in P, v \in G}

MakeImage(size, spacing, S, val) ==
  [size |-> size, spacing |-> spacing,
   pix |-> [v \in Grid(size) |-> IF v \in S THEN val ELSE 0]]

UnitSpacing == <<1, 1, 1>>

\* The masks with at most MaxVox voxels set, and all the masks.
SmallMasks(size, spacing) ==
  {MakeImage(size, spacing, S, val) :
     S \in SubsetsUpTo(Grid(size), MaxVox), val \in 1..MaxLabel}
AllMasks(size, spacing) ==
  {MakeImage(size, spacing, S, val) : S \in SUBSET Grid(size), val \in 1..MaxLabel}

NoImage == [size |-> <<0, 0, 0>>, spacing |-> UnitSpacing, pix |-> <<>>]

\* The set of voxels of an image whose sample is not zero.
NonZero(im) == {v \in DOMAIN im.pix : im.pix[v] # 0}

RECURSIVE SumOver(_, _)
SumOver(f, D) ==
  IF D = {} THEN 0
  ELSE LET v == CHOOSE w \in D : TRUE IN f[v] + SumOver(f, D \ {v})

\* numpy: GetArrayFromImage(im).sum()
ArraySum(im) == SumOver(im.pix, DOMAIN im.pix)

RECURSIVE BitAnd(_, _)
BitAnd(x, y) ==
  IF x = 0 \/ y = 0 THEN 0
  ELSE (x % 2) * (y % 2) + 2 * BitAnd(x \div 2, y \div 2)

\* sitk.And / the & operator on two UInt8 images: pixelwise bitwise and.
And(im1, im2) ==
  [im1 EXCEPT !.pix = [v \in DOMAIN im1.pix |-> BitAnd(im1.pix[v], im2.pix[v])]]

RECURSIVE BitOr(_, _)
BitOr(x, y) ==
  IF x = 0 THEN y
  ELSE IF y = 0 THEN x
  ELSE (IF x % 2 = 1 \/ y % 2 = 1 THEN 1 ELSE 0) + 2 * BitOr(x \div 2, y \div 2)

\* sitk.Or / the | operator on two UInt8 images: pixelwise bitwise or.
Or(im1, im2) ==
  [im1 EXCEPT !.pix = [v \in DOMAIN im1.pix |-> BitOr(im1.pix[v], im2.pix[v])]]

\* sitk.Equal(im, c): 1 where the sample equals c, 0 elsewhere.
Equal(im, c) ==
  [im EXCEPT !.pix = [v \in DOMAIN im.pix |-> IF im.pix[v] = c THEN 1 ELSE 0]]

\* sitk.Image(size, sitkUInt8) followed by CopyInformation(im): all zeros.
ZeroLike(im) == [im EXCEPT !.pix = [v \in DOMAIN im.pix |-> 0]]

\* sitk.InvertIntensity(im, maximum) on a UInt8 image: maximum - sample.
InvertIntensity(im, maximum) ==
  [im EXCEPT !.pix = [v \in DOMAIN im.pix |-> (maximum - im.pix[v]) % 256]]


(* ---------------- SimpleITK filters used by the code ---------------- *)

Abs(x) == IF x < 0 THEN -x ELSE x

Add3(v, o) == <<v[1] + o[1], v[2] + o[2], v[3] + o[3]>>

Offsets == {o \in (-1..1) \X (-1..1) \X (-1..1) : o # <<0, 0, 0>>}
FaceOffsets == {o \in Offsets : Abs(o[1]) + Abs(o[2]) + Abs(o[3]) = 1}

\* The neighbours of voxel v inside the image: face neighbours, or face, edge
\* and vertex neighbours when fullyConnected. Positions outside the image are
\* no neighbours (the scanline filters compare existing lines only).
Neighbours(D, v, fullyConnected) ==
  {Add3(v, o) : o \in (IF fullyConnected THEN Offsets ELSE FaceOffsets)} \cap D

\* sitk.LabelContour(im): fullyConnected=False, backgroundValue=0. A labelled
\* voxel stays when a neighbour carries another value; all others become 0.
LabelContour(im) ==
  [im EXCEPT !.pix = [v \in DOMAIN im.pix |->
     IF im.pix[v] # 0
        /\ \E w \in Neighbours(DOMAIN im.pix, v, FALSE) : im.pix[w] # im.pix[v]
     THEN im.pix[v] ELSE 0]]

\* Position of a voxel in the raster scan (x fastest, then y, then z).
RasterIndex(size, v) == v[1] + size[1] * (v[2] + size[2] * v[3])

\* The voxels of D reachable from S through neighbours inside D.
RECURSIVE Reach(_, _, _)
Reach(S, D, fullyConnected) ==
  IF S = D THEN S
  ELSE LET N == UNION {Neighbours(D \ S, v, fullyConnected) : v \in S}
       IN  IF N = {} THEN S ELSE Reach(S \cup N, D, fullyConnected)

\* The connected components of the voxel set D, in the order the raster scan
\* meets their first voxel.
RECURSIVE Components(_, _, _)
Components(size, D, fullyConnected) ==
  IF D = {} THEN <<>>
  ELSE LET first == CHOOSE v \in D :
                      \A w \in D : RasterIndex(size, v) <= RasterIndex(size, w)
           comp == Reach({first}, D, fullyConnected)
       IN  <<comp>> \o Components(size, D \ comp, fullyConnected)

\* sitk.ConnectedComponent(im) (fullyConnected=False): every non-zero voxel
\* gets the number 1, 2, ... of its face-connected component.
ConnectedComponent(im) ==
  LET comps == Components(im.size, NonZero(im), FALSE)
  IN  [im EXCEPT !.pix = [v \in DOMAIN im.pix |->
        IF im.pix[v] = 0 THEN 0
        ELSE CHOOSE l \in 1..Len(comps) : v \in comps[l]]]

\* LabelShapeStatisticsImageFilter.Execute(cc): GetLabels() in ascending
\* order and GetNumberOfPixels(l).
RECURSIVE MaxOf(_)
MaxOf(S) ==
  LET x == CHOOSE y \in S : TRUE
  IN  IF S = {x} THEN x
      ELSE LET m == MaxOf(S \ {x}) IN IF x > m THEN x ELSE m

GetLabels(cc) ==
  LET L == {cc.pix[v] : v \in NonZero(cc)}
  IN  IF L = {} THEN <<>> ELSE [i \in 1..MaxOf(L) |-> i]
GetNumberOfPixels(cc, l) == Cardinality({v \in DOMAIN cc.pix : cc.pix[v] = l})

\* sitk.BinaryThreshold(im, lower, upper): 1 inside [lower, upper], else 0.
BinaryThreshold(im, lowerThreshold, upperThreshold) ==
  [im EXCEPT !.pix = [v \in DOMAIN im.pix |->
     IF lowerThreshold <= im.pix[v] /\ im.pix[v] <= upperThreshold THEN 1 ELSE 0]]

\* The sitkBall kernel of the given radius per axis: the offsets inside the
\* ellipsoid whose axes are the kernel sizes 2*radius+1.
BallKernel(radius) ==
  {o \in (-radius[1]..radius[1]) \X (-radius[2]..radius[2]) \X (-radius[3]..radius[3]) :
       4 * o[1] * o[1] * (2*radius[2]+1) * (2*radius[2]+1) * (2*radius[3]+1) * (2*radius[3]+1)
     + 4 * o[2] * o[2] * (2*radius[1]+1) * (2*radius[1]+1) * (2*radius[3]+1) * (2*radius[3]+1)
     + 4 * o[3] * o[3] * (2*radius[1]+1) * (2*radius[1]+1) * (2*radius[2]+1) * (2*radius[2]+1)
    <= (2*radius[1]+1) * (2*radius[1]+1) * (2*radius[2]+1) * (2*radius[2]+1)
         * (2*radius[3]+1) * (2*radius[3]+1)}

Sub3(v, w) == <<v[1] - w[1], v[2] - w[2], v[3] - w[3]>>

\* sitk.BinaryMorphologicalClosing(im, radius) with the sitkBall kernel K of
\* that radius, foreground 1, safeBorder=True. The image is padded by the
\* radius, dilated, eroded and cropped, so the dilation may leave the image
\* and the closing is the one of the unbounded grid. (A foreground voxel
\* always passes the test: the kernel holds the zero offset.)
BinaryMorphologicalClosing(im, K) ==
  LET S == {v \in DOMAIN im.pix : im.pix[v] = 1}
      InDilated(p) == \E s \in S : Sub3(p, s) \in K
  IN  [im EXCEPT !.pix = [v \in DOMAIN im.pix |->
        IF \/ im.pix[v] = 1
           \/ InDilated(v) /\ \A o \in K : InDilated(Add3(v, o)) THEN 1
        ELSE IF im.pix[v] = 1 THEN 0 ELSE im.pix[v]]]

\* The voxels on the border of the image region.
OnImageBorder(size, v) ==
  \E i \in 1..3 : v[i] = 0 \/ v[i] = size[i] - 1

\* sitk.BinaryFillhole(im, fullyConnected, foregroundValue): the voxels that
\* do not hold foregroundValue and are not connected to the image border
\* through such voxels take foregroundValue; every other voxel keeps its sample.
BinaryFillhole(im, fullyConnected, foregroundValue) ==
  LET notFg == {v \in DOMAIN im.pix : im.pix[v] # foregroundValue}
      open == Reach({v \in notFg : OnImageBorder(im.size, v)}, notFg, fullyConnected)
  IN  [im EXCEPT !.pix = [v \in DOMAIN im.pix |->
        IF v \in notFg /\ v \notin open THEN foregroundValue ELSE im.pix[v]]]

\* LabelShapeStatisticsImageFilter.GetCentroid(l) followed by
\* img.TransformPhysicalPointToIndex: the mean position of the voxels of label
\* l, per axis, rounded to the nearest index (halves upwards). Origin and
\* spacing cancel between the two conversions.
RECURSIVE SumCoord(_, _)
SumCoord(S, i) ==
  IF S = {} THEN 0
  ELSE LET v == CHOOSE w \in S : TRUE IN v[i] + SumCoord(S \ {v}, i)

CentroidIndex(cc, l) ==
  LET S == {v \in DOMAIN cc.pix : cc.pix[v] = l}
      n == Cardinality(S)
  IN  [i \in 1..3 |-> (2 * SumCoord(S, i) + n) \div (2 * n)]

\* Squared physical distance between two voxel centres.
DistSq(spacing, v, w) ==
    (spacing[1] * (v[1] - w[1])) * (spacing[1] * (v[1] - w[1]))
  + (spacing[2] * (v[2] - w[2])) * (spacing[2] * (v[2] - w[2]))
  + (spacing[3] * (v[3] - w[3])) * (spacing[3] * (v[3] - w[3]))

RECURSIVE MinOf(_)
MinOf(S) ==
  LET x == CHOOSE y \in S : TRUE
  IN  IF S = {x} THEN x
      ELSE LET m == MinOf(S \ {x}) IN IF x < m THEN x ELSE m

\* Squared value the distance map holds everywhere when the object has no
\* border voxel (empty object, or object filling the image): the filter leaves
\* its initial "infinitely far" value in place.
FarSq == 1000

\* The border voxels SignedMaurerDistanceMap measures from: the object voxels
\* (sample # 0) with a background voxel among their face, edge and vertex
\* neighbours (its BinaryContour stage runs fully connected).
MaurerBorder(im) ==
  {v \in NonZero(im) : \E w \in Neighbours(DOMAIN im.pix, v, TRUE) : im.pix[w] = 0}

\* sitk.Abs(sitk.SignedMaurerDistanceMap(im, squaredDistance=False,
\* useImageSpacing=True)), kept squared: the distance of every voxel to the
\* nearest border voxel, in physical units.
AbsDistanceMapSq(im) ==
  LET B == MaurerBorder(im)
  IN  [v \in DOMAIN im.pix |->
         IF B = {} THEN FarSq ELSE MinOf({DistSq(im.spacing, v, w) : w \in B})]

\* The values of f on D as a sequence in ascending order (np.percentile sorts).
RECURSIVE SortedValues(_, _)
SortedValues(f, D) ==
  IF D = {} THEN <<>>
  ELSE LET v == CHOOSE w \in D : \A u \in D : f[w] <= f[u]
       IN  <<f[v]>> \o SortedValues(f, D \ {v})

\* Merge of two ascending sequences (np.concatenate followed by the sort).
RECURSIVE Merge(_, _)
Merge(s, t) ==
  IF s = <<>> THEN t
  ELSE IF t = <<>> THEN s
  ELSE IF Head(s) <= Head(t) THEN <<Head(s)>> \o Merge(Tail(s), t)
  ELSE <<Head(t)>> \o Merge(s, Tail(t))

\* A distance sqrt(lo) + (frac/100) * (sqrt(hi) - sqrt(lo)), lo <= hi squared
\* distances: what linear interpolation between two sorted samples returns.
Lerp(lo, hi, frac) ==
  IF frac = 0 THEN [kind |-> "lerp", lo |-> lo, hi |-> lo, frac |-> 0]
  ELSE IF lo = hi THEN [kind |-> "lerp", lo |-> lo, hi |-> lo, frac |-> 0]
  ELSE [kind |-> "lerp", lo |-> lo, hi |-> hi, frac |-> frac]

\* np.percentile(vals, q) of a non-empty ascending sequence of squared
\* distances (default linear interpolation at virtual index (n-1)*q/100).
Percentile(sq, q) ==
  LET h == (Len(sq) - 1) * q
      i == h \div 100
      f == h % 100
  IN  Lerp(sq[i + 1], IF f = 0 THEN sq[i + 1] ELSE sq[i + 2], f)

(* ---------------- seg_metrics.py ---------------- *)

\* sitk.Cast(a > 0, sitk.sitkUInt8)
_binarize(a) == [a EXCEPT !.pix = [v \in DOMAIN a.pix |-> IF a.pix[v] > 0 THEN 1 ELSE 0]]

Ratio(n, d) == [kind |-> "ratio", num |-> n, den |-> d]
RatioEps(n, d) == [kind |-> "ratio_eps", num |-> n, den |-> d]
Special(k) == [kind |-> k, num |-> 0, den |-> 0]

\* LabelOverlapMeasuresImageFilter, summed over the labels other than 0:
\* the number of voxels carrying the same non-zero label in both images, and
\* the number carrying a non-zero label in the source / in the target.
OverlapIntersection_source(a, b) == Cardinality(NonZero(a))
OverlapIntersection(a, b) ==
  Cardinality({v \in DOMAIN a.pix : a.pix[v] # 0 /\ a.pix[v] = b.pix[v]})
OverlapSource(a) == Cardinality(NonZero(a))
OverlapTarget(b) == Cardinality(NonZero(b))

\* dice(a_mask, b_mask): the values GetDiceCoefficient can return. With no
\* labelled voxel in either image the filter divides 0 by 0 (NaN) or, in the
\* releases that test the denominator, works from DBL_MAX (+Inf).
dice(am, bm) ==
  LET a == _binarize(am)
      b == _binarize(bm)
      i == OverlapIntersection(a, b)
      s == OverlapSource(a) + OverlapTarget(b)
  IN  IF s = 0 THEN {Special("nan"), Special("inf")}
      ELSE {Ratio(2 * i, s)}

\* jaccard(a_mask, b_mask): the values GetJaccardCoefficient can return.
jaccard(am, bm) ==
  LET a == _binarize(am)
      b == _binarize(bm)
      i == OverlapIntersection(a, b)
      u == OverlapSource(a) + OverlapTarget(b) - i
  IN  IF u = 0 THEN {Special("nan"), Special("max")}
      ELSE {Ratio(i, u)}

precision(am, bm) ==
  LET a == _binarize(am)
      b == _binarize(bm)
      tp == And(a, b)
      fp == And(InvertIntensity(a, 1), b)
      tp_sum == ArraySum(tp)
      fp_sum == ArraySum(fp)
  IN  RatioEps(tp_sum, tp_sum + fp_sum)

recall(am, bm) ==
  LET a == _binarize(am)
      b == _binarize(bm)
      tp == And(a, b)
      fn == And(a, InvertIntensity(b, 1))
      tp_sum == ArraySum(tp)
      fn_sum == ArraySum(fn)
  IN  RatioEps(tp_sum, tp_sum + fn_sum)

\* The positive entries of dt * (surf > 0), ascending: a_vals[a_vals > 0].
PositiveOnSurface_unmasked(dtSq, surf) ==
  SortedValues(dtSq, {v \in DOMAIN dtSq : dtSq[v] > 0})
PositiveOnSurface(dtSq, surf) ==
  SortedValues(dtSq, {v \in NonZero(surf) : dtSq[v] > 0})

hausdorff95(am, bm) ==
  LET a == _binarize(am)
      b == _binarize(bm)
      a_dt == AbsDistanceMapSq(a)
      b_dt == AbsDistanceMapSq(b)
      a_surf == LabelContour(a)
      b_surf == LabelContour(b)
      a_vals == PositiveOnSurface(a_dt, b_surf)
      b_vals == PositiveOnSurface(b_dt, a_surf)
      vals == Merge(a_vals, b_vals)
  IN  IF Len(vals) = 0 THEN Lerp(0, 0, 0)
      ELSE Percentile(vals, 95)

(* ---------------- quantify.py ---------------- *)

_voxel_volume_xy(im) == im.spacing[1] * im.spacing[2]
_voxel_volume(im) == im.spacing[1] * im.spacing[2] * im.spacing[3]

\* for l in keep: kept = kept | sitk.Equal(cc, l)
RECURSIVE OrLabels(_, _, _)
OrLabels(kept, cc, keep) ==
  IF keep = <<>> THEN kept
  ELSE OrLabels(Or(kept, Equal(cc, Head(keep))), cc, Tail(keep))

\* percent_infected without the intersection with the lung mask.
percent_infected_no_intersection(lung_m, infection_m, min_cc) ==
  LET lung == _binarize(lung_m)
      inf0 == _binarize(infection_m)
      cc == ConnectedComponent(inf0)
      KeepTest(l) == GetNumberOfPixels(cc, l) >= min_cc
      keep == SelectSeq(GetLabels(cc), KeepTest)
      inf == IF keep # <<>> THEN OrLabels(ZeroLike(cc), cc, keep) ELSE ZeroLike(cc)
      lung_vox == ArraySum(lung)
      inf_vox == ArraySum(inf)
  IN  IF lung_vox = 0 THEN Ratio(0, 1)
      ELSE Ratio(100 * inf_vox, lung_vox)

\* percent_infected keeping only the components larger than min_cc_vox.
percent_infected_strict(lung_m, infection_m, min_cc) ==
  LET lung == _binarize(lung_m)
      inf0 == And(_binarize(infection_m), lung)
      cc == ConnectedComponent(inf0)
      KeepTest(l) == GetNumberOfPixels(cc, l) > min_cc
      keep == SelectSeq(GetLabels(cc), KeepTest)
      inf == IF keep # <<>> THEN OrLabels(ZeroLike(cc), cc, keep) ELSE ZeroLike(cc)
      lung_vox == ArraySum(lung)
      inf_vox == ArraySum(inf)
  IN  IF lung_vox = 0 THEN Ratio(0, 1)
      ELSE Ratio(100 * inf_vox, lung_vox)

\* percent_infected without the test of lines 34-35: the division by a lung
\* volume of zero raises.
percent_infected_unguarded(lung_m, infection_m, min_cc) ==
  LET lung == _binarize(lung_m)
      inf0 == And(_binarize(infection_m), lung)
      cc == ConnectedComponent(inf0)
      KeepTest(l) == GetNumberOfPixels(cc, l) >= min_cc
      keep == SelectSeq(GetLabels(cc), KeepTest)
      inf == IF keep # <<>> THEN OrLabels(ZeroLike(cc), cc, keep) ELSE ZeroLike(cc)
      lung_vox == ArraySum(lung)
      inf_vox == ArraySum(inf)
  IN  IF lung_vox = 0 THEN Special("ZeroDivisionError")
      ELSE Ratio(100 * inf_vox, lung_vox)

percent_infected(lung_m, infection_m, min_cc) ==
  LET lung == _binarize(lung_m)
      inf0 == And(_binarize(infection_m), lung)
      cc == ConnectedComponent(inf0)
      KeepTest(l) == GetNumberOfPixels(cc, l) >= min_cc
      keep == SelectSeq(GetLabels(cc), KeepTest)
      inf == IF keep # <<>> THEN OrLabels(ZeroLike(cc), cc, keep) ELSE ZeroLike(cc)
      lung_vox == ArraySum(lung)
      inf_vox == ArraySum(inf)
  IN  IF lung_vox = 0 THEN Ratio(0, 1)
      ELSE Ratio(100 * inf_vox, lung_vox)

RECURSIVE SumSeq(_)
SumSeq(s) == IF s = <<>> THEN 0 ELSE Head(s) + SumSeq(Tail(s))

lesion_stats(infection_m) ==
  LET vox_vol == _voxel_volume(infection_m)
      inf == _binarize(infection_m)
      cc == ConnectedComponent(inf)
      labels == GetLabels(cc)
      total_vox == SumSeq([i \in 1..Len(labels) |-> GetNumberOfPixels(cc, labels[i])])
  IN  [lesion_count |-> Len(labels),
       total_voxels |-> total_vox,
       total_volume_ml |-> Ratio(total_vox * vox_vol, 1000)]

(* ---------------- auto_seed.py ---------------- *)

Min(x, y) == IF x < y THEN x ELSE y
Max(x, y) == IF x > y THEN x ELSE y

_clamp_idx(im, idx) ==
  [i \in 1..3 |-> Max(0, Min(idx[i], im.size[i] - 1))]

\* The labels left in label order, not ordered by size.
SortBySize_unsorted(keep, cc) == keep

\* sorted(keep, key=GetNumberOfPixels, reverse=True): largest first, labels
\* of equal size in their order in keep.
RECURSIVE SortBySize(_, _)
SortBySize(keep, cc) ==
  IF keep = <<>> THEN <<>>
  ELSE LET i == CHOOSE j \in 1..Len(keep) :
                  /\ \A k \in 1..Len(keep) :
                       GetNumberOfPixels(cc, keep[j]) >= GetNumberOfPixels(cc, keep[k])
                  /\ \A k \in 1..(j-1) :
                       GetNumberOfPixels(cc, keep[k]) < GetNumberOfPixels(cc, keep[j])
       IN  <<keep[i]>> \o SortBySize(SubSeq(keep, 1, i-1) \o SubSeq(keep, i+1, Len(keep)), cc)

\* SeedsFrom without the upper clamp of the right-hand seeds.
SeedsFrom_no_upper_clamp(im, cc, keep) ==
  IF Len(keep) >= 2 THEN
    [k \in 1..2 |-> _clamp_idx(im, CentroidIndex(cc, keep[k]))]
  ELSE IF Len(keep) = 1 THEN
    LET idx_c == _clamp_idx(im, CentroidIndex(cc, keep[1]))
    IN  << <<Max(idx_c[1] - 20, 0), idx_c[2], idx_c[3]>>,
           <<idx_c[1] + 20, idx_c[2], idx_c[3]>> >>
  ELSE
    LET sz == im.size
        mid == <<sz[1] \div 2, sz[2] \div 2, sz[3] \div 2>>
    IN  << <<Max(mid[1] - 25, 0), mid[2], mid[3]>>,
           <<mid[1] + 25, mid[2], mid[3]>> >>

\* Lines 38-59: the seeds from the labels kept, largest first.
SeedsFrom(im, cc, keep) ==
  IF Len(keep) >= 2 THEN
    [k \in 1..2 |-> _clamp_idx(im, CentroidIndex(cc, keep[k]))]
  ELSE IF Len(keep) = 1 THEN
    LET idx_c == _clamp_idx(im, CentroidIndex(cc, keep[1]))
    IN  << <<Max(idx_c[1] - 20, 0), idx_c[2], idx_c[3]>>,
           <<Min(idx_c[1] + 20, im.size[1] - 1), idx_c[2], idx_c[3]>> >>
  ELSE
    LET sz == im.size
        mid == <<sz[1] \div 2, sz[2] \div 2, sz[3] \div 2>>
    IN  << <<Max(mid[1] - 25, 0), mid[2], mid[3]>>,
           <<Min(mid[1] + 25, sz[1] - 1), mid[2], mid[3]>> >>

\* The kernel of sitk.BinaryMorphologicalClosing(air, [2,2,2]).
ClosingKernel == BallKernel(<<2, 2, 2>>)

auto_lung_seeds(im, airHu, min_cc) ==
  LET air1 == BinaryThreshold(im, -1000, airHu)
      air2 == BinaryMorphologicalClosing(air1, ClosingKernel)
      air3 == BinaryFillhole(air2, TRUE, 2)
      cc1 == ConnectedComponent(air3)
      KeepTest(l) == GetNumberOfPixels(cc1, l) >= min_cc
      keep1 == SelectSeq(GetLabels(cc1), KeepTest)
      cc2 == ConnectedComponent(BinaryThreshold(im, -1000, -600))
      cc == IF keep1 = <<>> THEN cc2 ELSE cc1
      keep == SortBySize(IF keep1 = <<>> THEN GetLabels(cc2) ELSE keep1, cc)
  IN  SeedsFrom(im, cc, keep)

(* ---------------- covid_ct/segmentation/region_growing.py ---------------- *)

\* A flood fill that does not grow: the seeds alone.
ConnectedThreshold_seeds_only(im, seedList, lo, up) ==
  [im EXCEPT !.pix = [v \in DOMAIN im.pix |->
     IF \E i \in 1..Len(seedList) : seedList[i] = v THEN 1 ELSE 0]]

\* sitk.ConnectedThreshold(im, seedList, lower, upper) with the default
\* replaceValue=1 and connectivity=FaceConnectivity: the voxels with a sample
\* in [lo, up] that a seed with such a sample reaches through face neighbours.
ConnectedThreshold(im, seedList, lo, up) ==
  LET D == {v \in DOMAIN im.pix : lo <= im.pix[v] /\ im.pix[v] <= up}
      start == {seedList[i] : i \in 1..Len(seedList)} \cap D
      grown == Reach(start, D, FALSE)
  IN  [im EXCEPT !.pix = [v \in DOMAIN im.pix |-> IF v \in grown THEN 1 ELSE 0]]

\* The first k components in label order, whatever their sizes.
_keep_largest_components_first(bin_img, k) ==
  LET cc == ConnectedComponent(bin_img)
      labels == SubSeq(GetLabels(cc), 1, Min(k, Len(GetLabels(cc))))
  IN  OrLabels(ZeroLike(bin_img), cc, labels)

\* _keep_largest_components(bin_img, k): the k components of the largest
\* physical size (the voxel count times the voxel volume, so the order of the
\* voxel counts), the sort being stable.
_keep_largest_components(bin_img, k) ==
  LET cc == ConnectedComponent(bin_img)
      sorted == SortBySize(GetLabels(cc), cc)
      labels == SubSeq(sorted, 1, Min(k, Len(sorted)))
  IN  OrLabels(ZeroLike(bin_img), cc, labels)

\* The outcome of a call: the exception raised or the value returned, and the
\* library filters the call has run, in order.
Raised(exc) == [raised |-> exc, value |-> NoImage, calls |-> <<>>]
Returned(value, calls) == [raised |-> "none", value |-> value, calls |-> calls]

\* Lines 30-47: flood fill, closing, hole filling, largest components.
GrowAndClean(im, seedList, lo, up, closingRadius, keepLargest, fillHoles) ==
  LET seg0 == ConnectedThreshold(im, seedList, lo, up)
      doClose == closingRadius # 0 /\ closingRadius > 0
      seg1 == IF doClose
                THEN BinaryMorphologicalClosing(seg0,
                       BallKernel(<<closingRadius, closingRadius, closingRadius>>))
                ELSE seg0
      seg2 == IF fillHoles THEN BinaryFillhole(seg1, TRUE, 1) ELSE seg1
      doKeep == keepLargest # 0 /\ keepLargest > 0
      seg3 == IF doKeep THEN _keep_largest_components(seg2, keepLargest) ELSE seg2
  IN  Returned(seg3,
        <<"ConnectedThreshold">>
        \o (IF doClose THEN <<"BinaryMorphologicalClosing">> ELSE <<>>)
        \o (IF fillHoles THEN <<"BinaryFillhole">> ELSE <<>>)
        \o (IF doKeep THEN <<"ConnectedComponent">> ELSE <<>>))

\* lung_mask_region_growing without the test of lines 27-28.
lung_mask_region_growing_unguarded(im, seedList, lo, up, closingRadius, keepLargest, fillHoles) ==
  GrowAndClean(im, seedList, lo, up, closingRadius, keepLargest, fillHoles)

lung_mask_region_growing(im, seedList, lo, up, closingRadius, keepLargest, fillHoles) ==
  IF seedList = <<>> THEN Raised("ValueError")
  ELSE GrowAndClean(im, seedList, lo, up, closingRadius, keepLargest, fillHoles)

(* ---------------- covid_ct/preprocess/resample.py ---------------- *)

\* Spacings are held in quarter millimetres (5 is 1.25 mm), so the quotient
\* osz * ospc / nspc is the exact fraction of two integers.

\* int(n / d), the quotient cut to an integer, for n >= 0 and d > 0.
RoundHalfEven_truncated(n, d) == n \div d

\* Python 3 round(n / d) for n >= 0 and d > 0: the nearest integer, a tie
\* going to the even neighbour.
RoundHalfEven(n, d) ==
  LET q == n \div d
      r == n % d
  IN  IF 2 * r < d THEN q
      ELSE IF 2 * r > d THEN q + 1
      ELSE IF q % 2 = 0 THEN q ELSE q + 1

\* resample_isotropic(img, spacing): the grid of the image returned. ref gets
\* new_size, the spacing asked for and the origin and direction of img, and
\* sitk.Resample returns an image on the grid of ref. The samples of the
\* resampled image are not part of the model.
resample_isotropic(im, spacing_) ==
  [size |-> [i \in 1..3 |-> RoundHalfEven(im.size[i] * im.spacing[i], spacing_[i])],
   spacing |-> spacing_,
   origin |-> im.origin,
   direction |-> im.direction]

(* ---------------- scripts/run_pipeline.py ---------------- *)

\* main, lines 58-74: the report written to report.json, from the lung mask
\* and the infection mask the segmentation steps have produced on the grid of
\* the resampled image.
main_report(lung, infection, min_lesion_cc) ==
  LET pct == percent_infected(lung, infection, min_lesion_cc)
      lst == lesion_stats(infection)
  IN  [dicom_dir |-> "dicom_dir",
       image_size |-> lung.size,
       spacing_mm |-> lung.spacing,
       percent_infected |-> pct] @@ lst

\* sitk.Clamp(img, sitkFloat32, lo, hi).
Clamp(im, lo, hi) ==
  [im EXCEPT !.pix = [v \in DOMAIN im.pix |-> Max(lo, Min(hi, im.pix[v]))]]

\* Every HU value of the model is a multiple of HuUnit; the z-score does not
\* change when all samples are divided by it.
HuUnit == 20

\* main, line 48 on the result of line 34:
\* sitk.BinaryThreshold(clip_and_norm(im, hu_min, hu_max, zscore), 0.55, 1.0),
\* in exact arithmetic. clip_and_norm clamps to [hu_min, hu_max] and scales to
\* (x - hu_min) / (hu_max - hu_min); with zscore it then subtracts the mean
\* and divides by GetSigma() (the sample deviation, N - 1), or by 1.0 when
\* that is 0. With y the clamped sample minus hu_min, u = N*y - sum(y) and
\* D = N*sum(y^2) - sum(y)^2, the z-score squared is u^2 (N-1) / (N D).
clip_and_norm_threshold(im, hu_min, hu_max, zscore) ==
  LET c == Clamp(im, hu_min, hu_max)
      G == DOMAIN c.pix
      y == [v \in G |-> (c.pix[v] - hu_min) \div HuUnit]
      N == Cardinality(G)
      S1 == SumOver(y, G)
      S2 == SumOver([v \in G |-> y[v] * y[v]], G)
      D == N * S2 - S1 * S1
      u == [v \in G |-> N * y[v] - S1]
      InRange(v) ==
        IF ~zscore
          THEN 100 * (c.pix[v] - hu_min) >= 55 * (hu_max - hu_min)
        ELSE IF D = 0 THEN FALSE
        ELSE /\ u[v] > 0
             /\ 400 * u[v] * u[v] * (N - 1) >= 121 * N * D
             /\ u[v] * u[v] * (N - 1) <= N * D
  IN  [size |-> im.size, spacing |-> im.spacing,
       pix |-> [v \in G |-> IF InRange(v) THEN 1 ELSE 0]]

\* main, line 49 without the lung mask.
main_infection_init_unmasked(thr, lung) == thr

\* main, line 49: infection_init = thr & lung.
main_infection_init(thr, lung) == And(thr, lung)

\* The local variables of main before its first statement.
MainLocals ==
  [raised |-> "none", calls |-> <<>>, img_r |-> NoImage, seeds |-> <<>>,
   lung |-> NoImage, thr |-> NoImage, infection_init |-> NoImage,
   infection |-> NoImage, pct |-> Special("unset"), lst |-> <<>>,
   report |-> <<>>, written |-> <<>>]

(* ---------------- covid_ct/io/dicom.py, covid_ct/io/series_select.py ---------------- *)

\* Text is a sequence of characters.
LowerLetters ==
  <<"a", "b", "c", "d", "e", "f", "g", "h", "i", "j", "k", "l", "m",
    "n", "o", "p", "q", "r", "s", "t", "u", "v", "w", "x", "y", "z">>
UpperLetters ==
  <<"A", "B", "C", "D", "E", "F", "G", "H", "I", "J", "K", "L", "M",
    "N", "O", "P", "Q", "R", "S", "T", "U", "V", "W", "X", "Y", "Z">>

\* str.upper()
Upper(text) ==
  [i \in 1..Len(text) |->
     IF \E j \in 1..Len(LowerLetters) : LowerLetters[j] = text[i]
       THEN UpperLetters[CHOOSE j \in 1..Len(LowerLetters) : LowerLetters[j] = text[i]]
       ELSE text[i]]

\* k in text
Contains(text, k) ==
  \E i \in 0..(Len(text) - Len(k)) : SubSeq(text, i + 1, i + Len(k)) = k

SCOUT == <<"S", "C", "O", "U", "T">>
LOCALIZER == <<"L", "O", "C", "A", "L", "I", "Z", "E", "R">>
TOP == <<"T", "O", "P">>
CT == <<"C", "T">>
ScoutPenalty == 10000

\* A series of the folder: its place sid among the series ids, the number of
\* its files (its file list is the files of series sid), and the modality and
\* series description of its first file. _read_meta returns both upper-cased.
_read_meta(series) == <<Upper(series.modality), Upper(series.desc)>>

NoSeries == [sid |-> 0, files |-> 0]
FilesOf(folder, sid) == [sid |-> sid, files |-> folder[sid].files]

\* The candidates (score, is_ct, not is_scout, files) of the series that have
\* files, in the order of the series ids; is_scouts[i] is the scout test of
\* the calling function on the description of series i.
Candidates(folder, is_scouts) ==
  LET withFiles == SelectSeq([i \in 1..Len(folder) |-> i],
                             LAMBDA i : folder[i].files > 0)
  IN  [j \in 1..Len(withFiles) |->
         LET sr == folder[withFiles[j]]
             meta == _read_meta(sr)
             is_scout == is_scouts[withFiles[j]]
         IN  [score |-> sr.files - (IF is_scout THEN ScoutPenalty ELSE 0),
              is_ct |-> meta[1] = CT,
              not_scout |-> ~is_scout,
              files |-> FilesOf(folder, withFiles[j])]]

\* list.sort(key=score, reverse=True): descending, and stable, so candidates
\* of equal score keep their order.
RECURSIVE InsertByScore(_, _)
InsertByScore(c, sorted) ==
  IF sorted = <<>> THEN <<c>>
  ELSE IF Head(sorted).score >= c.score
         THEN <<Head(sorted)>> \o InsertByScore(c, Tail(sorted))
         ELSE <<c>> \o sorted

\* The candidates left in the order of the series ids.
SortByScore_unsorted(pool) == pool

RECURSIVE SortByScore(_)
SortByScore(pool) ==
  IF pool = <<>> THEN <<>>
  ELSE InsertByScore(pool[Len(pool)], SortByScore(SubSeq(pool, 1, Len(pool) - 1)))

\* Lines 68-75 of dicom.py, 34-39 of series_select.py.
BestOf(candidates) ==
  IF candidates = <<>> THEN NoSeries
  ELSE LET cts == SelectSeq(candidates, LAMBDA c : c.is_ct)
           pool == IF cts # <<>> THEN cts ELSE candidates
       IN  SortByScore(pool)[1].files

\* dicom.py line 63.
IsScout(desc) == Contains(desc, SCOUT) \/ Contains(desc, LOCALIZER) \/ Contains(desc, TOP)

\* dicom.pick_best_ct_series; None is NoSeries.
pick_best_ct_series(folder) ==
  IF folder = <<>> THEN NoSeries ELSE BestOf(Candidates(folder,
         [i \in 1..Len(folder) |-> IsScout(_read_meta(folder[i])[2])]))

\* series_select.py line 30 with two of the three keywords.
IsScoutAny_two_keywords(desc) == \E k \in {SCOUT, LOCALIZER} : Contains(desc, k)

\* series_select.py line 30.
IsScoutAny(desc) == \E k \in {SCOUT, LOCALIZER, TOP} : Contains(desc, k)

\* series_select.best_series_in_dir
best_series_in_dir(folder) ==
  IF folder = <<>> THEN NoSeries ELSE BestOf(Candidates(folder,
         [i \in 1..Len(folder) |-> IsScoutAny(_read_meta(folder[i])[2])]))

(* ---------------- covid_ct/registration, scripts/register_pair.py ---------------- *)

\* Transforms act on the points of one axis. A rigid transform (Euler3D) is a
\* shift by t; a B-spline transform moves the point x of its domain by d[x]
\* and leaves every other point where it is. A composite transform is the
\* list of its transforms in the order they were added.
NoTransform == [type |-> "None"]
Euler3DTransform(t) == [type |-> "Euler3D", t |-> t]
BSplineTransform(d) == [type |-> "BSpline", d |-> d]
CompositeTransform(stages) == [type |-> "Composite", stages |-> stages]

\* Transform.TransformPoint: a composite transform applies its stages in
\* reverse order of addition, the last one added first.
RECURSIVE TransformPoint(_, _)
TransformPoint(tx, x) ==
  IF tx.type = "Euler3D" THEN x + tx.t
  ELSE IF tx.type = "BSpline" THEN (IF x \in DOMAIN tx.d THEN x + tx.d[x] ELSE x)
  ELSE IF tx.stages = <<>> THEN x
  ELSE TransformPoint(Head(tx.stages),
                      TransformPoint(CompositeTransform(Tail(tx.stages)), x))

\* The points of the fixed image and the shifts and displacements a
\* registration may end with.
MaxShift == 1
FixedDomain == 0..3
Shifts == (0 - MaxShift)..MaxShift
Fields == [FixedDomain -> Shifts]

\* The outcome of a call that returns a transform (the warped image is not
\* part of the model).
RaisedTx(exc) == [raised |-> exc, transform |-> NoTransform]
ReturnedTx(tx) == [raised |-> "none", transform |-> tx]

\* rigid_mi(fixed, moving): the Euler3D transform the optimizer ends with,
\* any shift.
rigid_mi == {ReturnedTx(Euler3DTransform(t)) : t \in Shifts}

\* bspline_deformable(fixed, moving, initial_transform=...), lines 19-67.
\* With an initial transform, line 28 copies it into a sitk.Transform and
\* line 29 calls AddTransform on the copy: SimpleITK 1.x turns the copy into
\* a composite and appends the B-spline, SimpleITK 2.x has no
\* Transform.AddTransform and raises AttributeError. The registration ends
\* with any displacement field; whether it also moves the parameters of the
\* first stage depends on the build, so the first stage may end with any shift.
bspline_deformable(initial_transform) ==
  IF initial_transform.type = "None"
    THEN {ReturnedTx(BSplineTransform(d)) : d \in Fields}
    ELSE {RaisedTx("AttributeError")}
         \cup {ReturnedTx(CompositeTransform(<<Euler3DTransform(t), BSplineTransform(d)>>)) :
                 t \in {initial_transform.t} \cup Shifts, d \in Fields}

\* scripts/register_pair.py: line 11 imports rigid_register_mi from
\* covid_ct.registration.rigid_mi, which defines rigid_mi and
\* apply_transform only, so loading the script raises ImportError before
\* run_once is defined.
register_pair(do_bspline) == {RaisedTx("ImportError")}

(* ---------------- the state machine ---------------- *)


NoCall == Special("none")

NoQuantInputs == lung_mask = NoImage /\ infection_mask = NoImage /\ min_cc_vox = 0
NoSeedInputs == img = NoImage /\ air_hu = 0
NoMetricInputs == a_mask = NoImage /\ b_mask = NoImage
NoGrowInputs ==
  /\ seeds = <<>> /\ lower = 0 /\ upper = 0
  /\ closing_radius = 0 /\ keep_largest = 0 /\ fill_holes = FALSE
NoResampleInputs == out_spacing = <<0, 0, 0>>
\* args holds the arguments of the scripts, of the registration and of the
\* series selection, as one record.
NoScriptInputs == args = <<>>

\* The grids of the pairs of masks: a flat one with cubic voxels and a block
\* with anisotropic voxels.
PairGeometries ==
  {[size |-> <<3, 3, 1>>, spacing |-> <<1, 1, 1>>],
   [size |-> <<2, 2, 2>>, spacing |-> <<1, 2, 3>>]}

\* Two masks on one grid, each with at most MaxVox voxels set.
Init ==
  /\ pc = "call"
  /\ ret = NoCall
  /\ NoScriptInputs
  /\ NoGrowInputs
  /\ NoResampleInputs
  /\ NoQuantInputs
  /\ NoSeedInputs
  /\ \E g \in PairGeometries :
       /\ a_mask \in SmallMasks(g.size, g.spacing)
       /\ b_mask \in SmallMasks(g.size, g.spacing)

\* One mask, any voxels set, compared with itself.
InitSelf ==
  /\ pc = "call"
  /\ ret = NoCall
  /\ NoScriptInputs
  /\ NoGrowInputs
  /\ NoResampleInputs
  /\ NoQuantInputs
  /\ NoSeedInputs
  /\ \E size \in Sizes, spacing \in Spacings : a_mask \in AllMasks(size, spacing)
  /\ b_mask = a_mask

Dice ==
  /\ pc = "call"
  /\ pc' = "dice"
  /\ ret' \in dice(a_mask, b_mask)
  /\ UNCHANGED inputs

Jaccard ==
  /\ pc = "call"
  /\ pc' = "jaccard"
  /\ ret' \in jaccard(a_mask, b_mask)
  /\ UNCHANGED inputs

Precision ==
  /\ pc = "call"
  /\ pc' = "precision"
  /\ ret' = precision(a_mask, b_mask)
  /\ UNCHANGED inputs

Recall ==
  /\ pc = "call"
  /\ pc' = "recall"
  /\ ret' = recall(a_mask, b_mask)
  /\ UNCHANGED inputs

Hausdorff95 ==
  /\ pc = "call"
  /\ pc' = "hausdorff95"
  /\ ret' = hausdorff95(a_mask, b_mask)
  /\ UNCHANGED inputs


\* Extents of the volumes handed to percent_infected.
QuantSizes == {<<2, 2, 2>>, <<3, 2, 1>>}

\* A lung mask with any voxels set, an infection mask on the same grid with
\* at most MaxInfVox voxels set and the same foreground value, and a size
\* threshold.
InitPercent ==
  /\ pc = "call"
  /\ ret = NoCall
  /\ NoScriptInputs
  /\ NoGrowInputs
  /\ NoResampleInputs
  /\ NoMetricInputs
  /\ NoSeedInputs
  /\ \E size \in QuantSizes, val \in 1..MaxLabel :
       /\ \E S \in SUBSET Grid(size) :
            lung_mask = MakeImage(size, UnitSpacing, S, val)
       /\ \E S \in SubsetsUpTo(Grid(size), MaxInfVox) :
            infection_mask = MakeImage(size, UnitSpacing, S, val)
  /\ min_cc_vox \in 0..MaxMinCcVox

\* The mask of the specification's example: two separate blobs of 100 and of
\* 50 voxels, 1 mm^3 per voxel.
BlobSize == <<16, 10, 1>>
BlobMask ==
  MakeImage(BlobSize, UnitSpacing,
            {v \in Grid(BlobSize) : v[1] <= 9 \/ v[1] >= 11}, 1)

\* An infection mask: any voxels set on a small grid, or the example mask.
InitLesion ==
  /\ pc = "call"
  /\ ret = NoCall
  /\ NoScriptInputs
  /\ NoGrowInputs
  /\ NoResampleInputs
  /\ NoMetricInputs
  /\ NoSeedInputs
  /\ lung_mask = NoImage
  /\ min_cc_vox = 0
  /\ \/ \E size \in Sizes, spacing \in Spacings :
          infection_mask \in AllMasks(size, spacing)
     \/ infection_mask = BlobMask

PercentInfected ==
  /\ pc = "call"
  /\ pc' = "percent_infected"
  /\ ret' = percent_infected(lung_mask, infection_mask, min_cc_vox)
  /\ UNCHANGED inputs

LesionStats ==
  /\ pc = "call"
  /\ pc' = "lesion_stats"
  /\ ret' = lesion_stats(infection_mask)
  /\ UNCHANGED inputs

\* Sample values: aerated lung, tissue inside the relaxed band only, soft tissue.
HuValues == {-800, -650, 40}
SoftTissue == CHOOSE h \in HuValues : h > 0
\* Extents of the volumes handed to auto_lung_seeds: a single voxel, a small
\* block, and a row long enough for the offsets of 20 and 25 voxels to fit.
SeedSizes == {<<1, 1, 1>>, <<4, 2, 2>>}
RowSize == <<52, 1, 1>>
DefaultAirHu == -700
DefaultMinCcVox == 1500

\* The volume of soft tissue with the voxels of S at the densities f gives.
Volume(size, S, f) ==
  [size |-> size, spacing |-> UnitSpacing,
   pix |-> [v \in Grid(size) |-> IF v \in S THEN f[v] ELSE SoftTissue]]

\* Positions along the row that leave gaps of one, of two and of many voxels.
RowMarkers == {<<x, 0, 0>> : x \in {0, 1, 3, 30, 31, 51}}

\* A volume of soft tissue with at most MaxAirVox voxels of lower density, a
\* row with at most one of them, or a row with any of the marked voxels.
InitSeeds ==
  /\ pc = "call"
  /\ ret = NoCall
  /\ NoScriptInputs
  /\ NoGrowInputs
  /\ NoResampleInputs
  /\ NoMetricInputs
  /\ lung_mask = NoImage
  /\ infection_mask = NoImage
  /\ \/ \E size \in SeedSizes :
          \E S \in SubsetsUpTo(Grid(size), MaxAirVox) :
            \E f \in [S -> HuValues \ {SoftTissue}] : img = Volume(size, S, f)
     \/ \E S \in SubsetsUpTo(Grid(RowSize), 1) \cup SUBSET RowMarkers :
          \E f \in [S -> HuValues \ {SoftTissue}] : img = Volume(RowSize, S, f)
  /\ air_hu \in {DefaultAirHu, -500}
  /\ min_cc_vox \in {1, 2, DefaultMinCcVox}

AutoLungSeeds ==
  /\ pc = "call"
  /\ pc' = "auto_lung_seeds"
  /\ ret' = auto_lung_seeds(img, air_hu, min_cc_vox)
  /\ UNCHANGED inputs

\* Largest number of seeds of a call of lung_mask_region_growing.
MaxSeeds == 3
\* Largest number of voxels of lung density in a volume that is not constant.
MaxBandVox == 3

DefaultLower == -950
DefaultUpper == -500
DefaultClosingRadius == 2
DefaultKeepLargest == 2

\* The density of aerated lung among the densities of the volumes.
LungHu == CHOOSE h \in HuValues : h < DefaultAirHu

\* The intensity bands of the flood fill: the default one and the band that
\* holds the lung density alone.
Bands == {<<DefaultLower, DefaultUpper>>, <<LungHu, LungHu>>}

\* The clean-up settings: the default ones, every step off, and a smaller
\* closing with one component kept.
Cleanups ==
  {[closing_radius |-> DefaultClosingRadius, keep_largest |-> DefaultKeepLargest,
    fill_holes |-> TRUE],
   [closing_radius |-> 0, keep_largest |-> 0, fill_holes |-> FALSE],
   [closing_radius |-> 1, keep_largest |-> 1, fill_holes |-> TRUE]}

GrowSize == <<3, 3, 1>>
ConstSizes == {<<1, 1, 1>>, <<3, 3, 3>>, <<4, 2, 2>>}

\* The voxels of S as a list, in raster order.
RECURSIVE RasterSeq(_, _)
RasterSeq(size, S) ==
  IF S = {} THEN <<>>
  ELSE LET first == CHOOSE v \in S :
                      \A w \in S : RasterIndex(size, v) <= RasterIndex(size, w)
       IN  <<first>> \o RasterSeq(size, S \ {first})

\* A flat volume of soft tissue with at most MaxBandVox voxels of lung
\* density, at most MaxSeeds seeds anywhere and the default band, or a volume
\* of one density with a seed at its centre and either band.
InitGrow ==
  /\ pc = "call"
  /\ ret = NoCall
  /\ NoScriptInputs
  /\ NoMetricInputs
  /\ NoQuantInputs
  /\ NoResampleInputs
  /\ air_hu = 0
  /\ \/ /\ \E S \in SubsetsUpTo(Grid(GrowSize), MaxBandVox) :
             img = Volume(GrowSize, S, [v \in S |-> LungHu])
        /\ \E S \in SubsetsUpTo(Grid(GrowSize), MaxSeeds) :
             seeds = RasterSeq(GrowSize, S)
        /\ lower = DefaultLower /\ upper = DefaultUpper
     \/ /\ \E size \in ConstSizes : \E h \in {DefaultLower, LungHu, DefaultUpper} :
             /\ img = Volume(size, Grid(size), [v \in Grid(size) |-> h])
             /\ seeds = << <<size[1] \div 2, size[2] \div 2, size[3] \div 2>> >>
        /\ \E b \in Bands : lower = b[1] /\ upper = b[2]
  /\ \E c \in Cleanups :
       /\ closing_radius = c.closing_radius
       /\ keep_largest = c.keep_largest
       /\ fill_holes = c.fill_holes

\* The row of the volumes whose flood fill has several components, and the
\* voxels of it that may have lung density: pairs three voxels apart, which
\* no closing of the modelled radii joins.
KeepSize == <<10, 1, 1>>
KeepMarkers == {<<x, 0, 0>> : x \in {0, 1, 4, 5, 8, 9}}

\* A row with any of the marked voxels at lung density and at most MaxSeeds
\* seeds among them, or a flat volume with at most MaxBandVox such voxels,
\* each a seed.
InitKeep ==
  /\ pc = "call"
  /\ ret = NoCall
  /\ NoScriptInputs
  /\ NoMetricInputs
  /\ NoQuantInputs
  /\ NoResampleInputs
  /\ air_hu = 0
  /\ \/ \E S \in SUBSET KeepMarkers : \E T \in SubsetsUpTo(S, MaxSeeds) :
          /\ img = Volume(KeepSize, S, [v \in S |-> LungHu])
          /\ seeds = RasterSeq(KeepSize, T)
     \/ \E S \in SubsetsUpTo(Grid(GrowSize), MaxBandVox) :
          /\ img = Volume(GrowSize, S, [v \in S |-> LungHu])
          /\ seeds = RasterSeq(GrowSize, S)
  /\ lower = DefaultLower /\ upper = DefaultUpper
  /\ \E c \in Cleanups :
       /\ closing_radius = c.closing_radius
       /\ keep_largest = c.keep_largest
       /\ fill_holes = c.fill_holes

LungMaskRegionGrowing ==
  /\ pc = "call"
  /\ pc' = "lung_mask_region_growing"
  /\ ret' = lung_mask_region_growing(img, seeds, lower, upper, closing_radius,
                                      keep_largest, fill_holes)
  /\ UNCHANGED inputs

\* Largest number of voxels along an axis of a volume to resample.
MaxSize == 3

\* Spacings in quarter millimetres: 0.5, 1.0, 1.25 (the default) and 1.5 mm.
DefaultSpacing == 5
QuarterMm == {2, 4, DefaultSpacing, 6}

Origins == {<<0, 0, 0>>, <<-125, -125, 40>>}
Directions == {<<1, 0, 0, 0, 1, 0, 0, 0, 1>>, <<-1, 0, 0, 0, -1, 0, 0, 0, 1>>}

\* A grid of at most MaxSize voxels per axis, resampled to an isotropic
\* spacing or to its own spacing, and at least half a target voxel thick on
\* every axis, so that no axis of the new grid is empty.
InitResample ==
  /\ pc = "call"
  /\ ret = NoCall
  /\ NoScriptInputs
  /\ NoMetricInputs
  /\ NoQuantInputs
  /\ NoGrowInputs
  /\ air_hu = 0
  /\ \E size \in (1..MaxSize) \X (1..MaxSize) \X (1..MaxSize) :
       \E sp \in QuarterMm \X QuarterMm \X QuarterMm :
         \E o \in Origins : \E d \in Directions :
           img = [size |-> size, spacing |-> sp, origin |-> o, direction |-> d]
  /\ out_spacing \in {<<q, q, q>> : q \in QuarterMm} \cup {img.spacing}
  /\ \A i \in 1..3 : 2 * img.size[i] * img.spacing[i] > out_spacing[i]

\* resample_isotropic(img, spacing), and the same call on its result.
ResampleIsotropic ==
  /\ pc = "call"
  /\ pc' = "resample_isotropic"
  /\ ret' = resample_isotropic(img, out_spacing)
  /\ UNCHANGED inputs

ResampleIsotropicAgain ==
  /\ pc = "resample_isotropic"
  /\ pc' = "resample_isotropic_again"
  /\ ret' = resample_isotropic(ret, out_spacing)
  /\ UNCHANGED inputs

\* The grid of the masks the report is built from.
ReportGeometry == [size |-> <<3, 2, 1>>, spacing |-> <<1, 2, 3>>]

\* A lung mask with any voxels set, an infection mask on the same grid with
\* at most MaxInfVox voxels set (none of them, too), and a size threshold.
InitReport ==
  /\ pc = "call"
  /\ ret = NoCall
  /\ NoScriptInputs
  /\ NoGrowInputs
  /\ NoResampleInputs
  /\ NoMetricInputs
  /\ NoSeedInputs
  /\ \E val \in 1..MaxLabel :
       /\ \E S \in SUBSET Grid(ReportGeometry.size) :
            lung_mask = MakeImage(ReportGeometry.size, ReportGeometry.spacing, S, val)
       /\ \E S \in SubsetsUpTo(Grid(ReportGeometry.size), MaxInfVox) :
            infection_mask = MakeImage(ReportGeometry.size, ReportGeometry.spacing, S, val)
  /\ min_cc_vox \in {1, MaxMinCcVox}

MainReport ==
  /\ pc = "call"
  /\ pc' = "main"
  /\ ret' = main_report(lung_mask, infection_mask, min_cc_vox)
  /\ UNCHANGED inputs

\* main, lines 37-39: the seeds of the configuration, or automatic seeds
\* when the configuration has none.
main_seeds(cfg_seeds, img_r) ==
  IF cfg_seeds = <<>> THEN auto_lung_seeds(img_r, DefaultAirHu, DefaultMinCcVox)
  ELSE cfg_seeds

\* The configuration file and the DICOM folder of a run of the pipeline: a
\* folder with a series or without one, seeds listed or not, the intensity
\* window, the z-score switch, the band of the flood fill, the size threshold
\* of the quantification and the overlay switch. img is the volume of the
\* series, already on the isotropic grid, so that the resampling of line 33
\* leaves its samples in place.
PipelineVolumes ==
  {Volume(GrowSize, S, [v \in S |-> LungHu]) : S \in SubsetsUpTo(Grid(GrowSize), 2)}
ClipHu == {<<-1000, 400>>, <<-700, 400>>}
\* The default band, and a band around the density of soft tissue.
ConfigBands == {<<DefaultLower, DefaultUpper>>, <<-100, 100>>}
ConfigSeeds == {<<>>, <<<<0, 0, 0>>>>, <<<<1, 1, 0>>>>}

InitMain ==
  /\ pc = "call"
  /\ ret = NoCall
  /\ NoMetricInputs
  /\ lung_mask = NoImage
  /\ infection_mask = NoImage
  /\ NoResampleInputs
  /\ img \in PipelineVolumes
  /\ air_hu = DefaultAirHu
  /\ min_cc_vox = DefaultMinCcVox
  /\ seeds = <<>>
  /\ \E band \in ConfigBands : lower = band[1] /\ upper = band[2]
  /\ closing_radius = DefaultClosingRadius
  /\ keep_largest = DefaultKeepLargest
  /\ fill_holes = TRUE
  /\ \E has \in BOOLEAN, cs \in ConfigSeeds, clip \in ClipHu, z \in BOOLEAN,
        mcc \in {1, 2}, ov \in BOOLEAN :
       args = [has_series |-> has, seeds |-> cs, clip_hu |-> clip, zscore |-> z,
               min_lesion_cc |-> mcc, save_overlay |-> ov]

\* main, lines 27-34: read the series, clamp, resample, normalise.
\* read_dicom_series raises RuntimeError when the folder has no series.
MainPreprocess ==
  /\ pc = "call"
  /\ IF args.has_series
       THEN /\ pc' = "main_preprocess"
            /\ ret' = [MainLocals EXCEPT
                 !.img_r = Clamp(img, args.clip_hu[1], args.clip_hu[2]),
                 !.calls = <<"read_dicom_series", "Clamp", "resample_isotropic",
                             "clip_and_norm">>]
       ELSE /\ pc' = "main_raised"
            /\ ret' = [MainLocals EXCEPT !.raised = "RuntimeError",
                                         !.calls = <<"read_dicom_series">>]
  /\ UNCHANGED inputs

\* main, lines 37-40.
MainSeeds ==
  /\ pc = "main_preprocess"
  /\ pc' = "main_seeds"
  /\ ret' = [ret EXCEPT
       !.seeds = main_seeds(args.seeds, ret.img_r),
       !.calls = ret.calls \o (IF args.seeds = <<>> THEN <<"auto_lung_seeds">> ELSE <<>>)]
  /\ UNCHANGED inputs

\* main, lines 43-47.
MainLung ==
  /\ pc = "main_seeds"
  /\ LET out == lung_mask_region_growing(ret.img_r, ret.seeds, lower, upper,
                   closing_radius, keep_largest, fill_holes)
     IN  IF out.raised = "none"
           THEN /\ pc' = "main_lung"
                /\ ret' = [ret EXCEPT !.lung = out.value,
                             !.calls = ret.calls \o <<"lung_mask_region_growing">>]
           ELSE /\ pc' = "main_raised"
                /\ ret' = [ret EXCEPT !.raised = out.raised,
                             !.calls = ret.calls \o <<"lung_mask_region_growing">>]
  /\ UNCHANGED inputs

\* main, lines 48-49.
MainInfectionInit ==
  /\ pc = "main_lung"
  /\ pc' = "main_infection_init"
  /\ LET thr == clip_and_norm_threshold(ret.img_r, args.clip_hu[1], args.clip_hu[2],
                                        args.zscore)
     IN  ret' = [ret EXCEPT !.thr = thr,
                   !.infection_init = main_infection_init(thr, ret.lung),
                   !.calls = ret.calls \o <<"BinaryThreshold">>]
  /\ UNCHANGED inputs

\* main, lines 50-56: the level set ends with some mask on the grid of the
\* image (here any mask of at most one voxel).
MainLevelset ==
  /\ pc = "main_infection_init"
  /\ pc' = "main_levelset"
  /\ \E S \in SubsetsUpTo(Grid(ret.img_r.size), 1) :
       ret' = [ret EXCEPT
         !.infection = MakeImage(ret.img_r.size, ret.img_r.spacing, S, 1),
         !.calls = ret.calls \o <<"lesion_levelset">>]
  /\ UNCHANGED inputs

\* main, line 59.
MainPercentInfected ==
  /\ pc = "main_levelset"
  /\ pc' = "main_percent_infected"
  /\ ret' = [ret EXCEPT
       !.pct = percent_infected(ret.lung, ret.infection, args.min_lesion_cc),
       !.calls = ret.calls \o <<"percent_infected">>]
  /\ UNCHANGED inputs

\* main, line 60.
MainLesionStats ==
  /\ pc = "main_percent_infected"
  /\ pc' = "main_lesion_stats"
  /\ ret' = [ret EXCEPT !.lst = lesion_stats(ret.infection),
                        !.calls = ret.calls \o <<"lesion_stats">>]
  /\ UNCHANGED inputs

\* main, lines 63-65.
MainOutputs ==
  /\ pc = "main_lesion_stats"
  /\ pc' = "main_outputs"
  /\ ret' = [ret EXCEPT
       !.written = <<"image_resampled.nii.gz", "mask_lung.nii.gz",
                     "mask_infection.nii.gz">>,
       !.calls = ret.calls \o <<"write_nifti", "write_nifti", "write_nifti">>]
  /\ UNCHANGED inputs

\* main, lines 67-74.
MainWriteReport ==
  /\ pc = "main_outputs"
  /\ pc' = "main_report"
  /\ ret' = [ret EXCEPT
       !.report = [dicom_dir |-> "dicom_dir",
                   image_size |-> ret.img_r.size,
                   spacing_mm |-> ret.img_r.spacing,
                   percent_infected |-> ret.pct] @@ ret.lst,
       !.written = ret.written \o <<"report.json">>]
  /\ UNCHANGED inputs

\* main, lines 76-80.
MainOverlay ==
  /\ pc = "main_report"
  /\ pc' = "main_done"
  /\ ret' = [ret EXCEPT
       !.written = ret.written \o (IF args.save_overlay THEN <<"qc_overlay.png">> ELSE <<>>),
       !.calls = ret.calls \o (IF args.save_overlay THEN <<"save_overlay">> ELSE <<>>)]
  /\ UNCHANGED inputs

NextMain ==
  \/ MainPreprocess \/ MainSeeds \/ MainLung \/ MainInfectionInit \/ MainLevelset
  \/ MainPercentInfected \/ MainLesionStats \/ MainOutputs \/ MainWriteReport
  \/ MainOverlay

SpecMain == InitMain /\ [][NextMain]_vars

(* ---------------- argument objects of the core operations ---------------- *)

\* A Python call passes references: a statement of a function body either
\* creates an object and binds a local name to it (every SimpleITK procedure,
\* operator and constructor returns a new image or filter), binds a name to an
\* object another name holds, calls a method that changes the object a name
\* holds (CopyInformation, SetSpacing, SetOrigin, SetDirection, the setters of
\* a filter), or draws from a random source. t is the name the statement
\* binds or changes, s the names it reads.
New(t, s) == [k |-> "new", t |-> t, s |-> s]
Bind(t, s) == [k |-> "bind", t |-> t, s |-> s]
Mutate(t, s) == [k |-> "mutate", t |-> t, s |-> s]
Random(t, s) == [k |-> "random", t |-> t, s |-> s]

CoreOperations ==
  {"percent_infected", "lesion_stats", "dice", "jaccard", "precision", "recall",
   "hausdorff95", "lung_mask_region_growing", "lesion_levelset", "clip_and_norm",
   "resample_isotropic"}
FrameOperations == CoreOperations \cup {"rigid_mi"}

\* The parameters of each operation that hold objects.
Params(op) ==
  CASE op \in {"dice", "jaccard", "precision", "recall", "hausdorff95"} ->
         <<"a_mask", "b_mask">>
    [] op = "percent_infected" -> <<"lung_mask", "infection_mask">>
    [] op = "lesion_stats" -> <<"infection_mask">>
    [] op = "lung_mask_region_growing" -> <<"img", "seeds">>
    [] op = "lesion_levelset" -> <<"img", "init_mask">>
    [] op = "clip_and_norm" -> <<"img">>
    [] op = "resample_isotropic" -> <<"img", "spacing">>
    [] op = "rigid_mi" -> <<"fixed", "moving">>

\* The statements of each body, in order. opt tells which way the body's
\* branches go: with it the optional steps run (the components kept in
\* percent_infected, the clean-up of the lung mask, the closing after the
\* level set, the z-score), without it they do not.
Body(op, opt) ==
  CASE op \in {"dice", "jaccard"} ->
         <<New("a", <<"a_mask">>), New("b", <<"b_mask">>), New("f", <<>>),
           Mutate("f", <<"a", "b">>)>>
    [] op = "precision" ->
         <<New("a", <<"a_mask">>), New("b", <<"b_mask">>), New("tp", <<"a", "b">>),
           New("fp", <<"a", "b">>), New("tp_sum", <<"tp">>), New("fp_sum", <<"fp">>)>>
    [] op = "recall" ->
         <<New("a", <<"a_mask">>), New("b", <<"b_mask">>), New("tp", <<"a", "b">>),
           New("fn", <<"a", "b">>), New("tp_sum", <<"tp">>), New("fn_sum", <<"fn">>)>>
    [] op = "hausdorff95" ->
         <<New("a", <<"a_mask">>), New("b", <<"b_mask">>),
           New("a_dt", <<"a">>), New("b_dt", <<"b">>),
           New("a_surf", <<"a">>), New("b_surf", <<"b">>),
           New("a2b", <<"a_dt", "b_surf">>), New("b2a", <<"b_dt", "a_surf">>),
           New("vals", <<"a2b", "b2a">>)>>
    [] op = "percent_infected" ->
         <<New("lung", <<"lung_mask">>), New("inf", <<"infection_mask">>),
           New("inf", <<"inf", "lung">>), New("cc", <<"inf">>),
           New("stats", <<>>), Mutate("stats", <<"cc">>)>>
         \o (IF opt
               THEN <<New("kept", <<"cc">>), Mutate("kept", <<"cc">>),
                      New("kept", <<"kept", "cc">>), Bind("inf", <<"kept">>)>>
               ELSE <<New("inf", <<"cc">>), Mutate("inf", <<"cc">>)>>)
         \o <<New("lung_vox", <<>>), Mutate("lung_vox", <<"lung">>),
              New("inf_vox", <<>>), Mutate("inf_vox", <<"inf">>)>>
    [] op = "lesion_stats" ->
         <<New("vox_vol", <<"infection_mask">>), New("inf", <<"infection_mask">>),
           New("cc", <<"inf">>), New("stats", <<>>), Mutate("stats", <<"cc">>)>>
    [] op = "lung_mask_region_growing" ->
         <<New("seedList", <<"seeds">>), New("seg", <<"img", "seedList">>)>>
         \o (IF opt
               THEN <<New("seg", <<"seg">>), New("seg", <<"seg">>),
                      New("cc", <<"seg">>), New("stats", <<>>), Mutate("stats", <<"cc">>),
                      New("out", <<"seg">>), Mutate("out", <<"seg">>),
                      New("out", <<"out", "cc">>), Bind("seg", <<"out">>)>>
               ELSE <<>>)
    [] op = "lesion_levelset" ->
         <<New("sm", <<"img">>), New("grad", <<"sm">>), New("edge", <<"grad">>),
           New("phi0", <<"init_mask">>), New("gac", <<>>), Mutate("gac", <<>>),
           New("out", <<"phi0", "edge">>), New("seg", <<"out">>)>>
         \o (IF opt THEN <<New("seg", <<"seg">>)>> ELSE <<>>)
    [] op = "clip_and_norm" ->
         <<New("img", <<"img">>), New("img", <<"img">>), New("img", <<"img">>)>>
         \o (IF opt
               THEN <<New("stats", <<>>), Mutate("stats", <<"img">>),
                      New("img", <<"img">>)>>
               ELSE <<>>)
    [] op = "resample_isotropic" ->
         <<New("new_size", <<"img", "spacing">>), New("ref", <<"img">>),
           Mutate("ref", <<"spacing">>), Mutate("ref", <<"img">>),
           Mutate("ref", <<"img">>), New("resampled", <<"img", "ref">>)>>
    [] op = "rigid_mi" ->
         <<New("init_tx", <<"fixed", "moving">>), New("reg", <<>>),
           Mutate("reg", <<>>), Random("reg", <<>>), Mutate("reg", <<"init_tx">>),
           New("final_tx", <<"reg", "fixed", "moving">>),
           New("warped", <<"moving", "fixed", "final_tx">>)>>

\* The frame of a call before its first statement: the parameters hold the
\* first objects of the store, the next object is the module-level state (the
\* imported sitk module; the modules define nothing else but functions), and
\* no object has been written.
EnterCall(op, opt) ==
  LET ps == Params(op)
  IN  [env |-> [n \in {ps[i] : i \in 1..Len(ps)} |->
                  CHOOSE i \in 1..Len(ps) : ps[i] = n],
       heap |-> [i \in 1..(Len(ps) + 1) |-> 0],
       random |-> FALSE,
       rest |-> Body(op, opt)]

\* A statement that creates an object, with the name bound to the first
\* object it reads instead.
NewObject_alias(fr, st) ==
  IF st.s = <<>>
    THEN [fr EXCEPT !.env = (st.t :> (Len(fr.heap) + 1)) @@ fr.env,
                    !.heap = Append(fr.heap, 0)]
    ELSE [fr EXCEPT !.env = (st.t :> fr.env[st.s[1]]) @@ fr.env]

\* A statement that creates an object: the name is bound to a new object.
NewObject(fr, st) ==
  [fr EXCEPT !.env = (st.t :> (Len(fr.heap) + 1)) @@ fr.env,
             !.heap = Append(fr.heap, 0)]

\* One statement of the body.
Execute(fr, st) ==
  LET done == [fr EXCEPT !.rest = Tail(fr.rest)]
  IN  CASE st.k = "new" -> NewObject(done, st)
        [] st.k = "bind" -> [done EXCEPT !.env = (st.t :> fr.env[st.s[1]]) @@ fr.env]
        [] st.k = "mutate" ->
             [done EXCEPT !.heap[fr.env[st.t]] = fr.heap[fr.env[st.t]] + 1]
        [] st.k = "random" -> [done EXCEPT !.random = TRUE]

InitFrame ==
  /\ pc = "call"
  /\ ret = NoCall
  /\ NoMetricInputs
  /\ NoQuantInputs
  /\ NoGrowInputs
  /\ NoResampleInputs
  /\ NoSeedInputs
  /\ \E op \in FrameOperations, opt \in BOOLEAN : args = [op |-> op, opt |-> opt]

FrameEnter ==
  /\ pc = "call"
  /\ pc' = "frame_running"
  /\ ret' = EnterCall(args.op, args.opt)
  /\ UNCHANGED inputs

FrameStep ==
  /\ pc = "frame_running"
  /\ ret.rest # <<>>
  /\ pc' = pc
  /\ ret' = Execute(ret, Head(ret.rest))
  /\ UNCHANGED inputs

FrameReturn ==
  /\ pc = "frame_running"
  /\ ret.rest = <<>>
  /\ pc' = "frame_returned"
  /\ ret' = ret
  /\ UNCHANGED inputs

NextFrame == FrameEnter \/ FrameStep \/ FrameReturn

SpecFrame == InitFrame /\ [][NextFrame]_vars

\* The folders: up to MaxSeries series, each with no file, a few files or
\* more files than the penalty of a scout, of modality CT or MR, described as
\* a chest scan, a scout (in lower case), a localizer or an autopsy scan.
MaxSeries == 2
BigSeries == ScoutPenalty + 2
Modalities == {CT, <<"M", "R">>}
Descriptions ==
  {<<"C", "H", "E", "S", "T">>, <<"s", "c", "o", "u", "t">>, LOCALIZER,
   <<"A", "U", "T", "O", "P", "S", "Y">>}
FileCounts == {0, 1, 2, BigSeries}
SeriesOfFolder == [modality : Modalities, desc : Descriptions, files : FileCounts]

InitSeries ==
  /\ pc = "call"
  /\ ret = NoCall
  /\ NoMetricInputs
  /\ NoQuantInputs
  /\ NoGrowInputs
  /\ NoResampleInputs
  /\ NoSeedInputs
  /\ \E n \in 0..MaxSeries : \E folder \in [1..n -> SeriesOfFolder] :
       args = [folder |-> folder]

PickBestCtSeries ==
  /\ pc = "call"
  /\ pc' = "pick_best_ct_series"
  /\ ret' = pick_best_ct_series(args.folder)
  /\ UNCHANGED inputs

BestSeriesInDir ==
  /\ pc = "call"
  /\ pc' = "best_series_in_dir"
  /\ ret' = best_series_in_dir(args.folder)
  /\ UNCHANGED inputs

NextSeries == PickBestCtSeries \/ BestSeriesInDir

SpecSeries == InitSeries /\ [][NextSeries]_vars

\* The iterative solvers: lesion_levelset hands `iterations` to the geodesic
\* active contour filter (levelset.py 34-39), which runs on the image as it
\* is; rigid_mi and bspline_deformable hand `iters` to the optimizer and the
\* shrink factors (4, 2, 1) to the registration method (rigid_mi.py 36-53,
\* bspline.py 37-60), which runs the optimizer once per level. Each run stops
\* when its iteration budget is used up, or earlier when it converges.
MaxIters == 2
Solvers == {"lesion_levelset", "rigid_mi", "bspline_deformable"}
DefaultShrinkFactors == <<4, 2, 1>>
ShrinkFactorsPerLevel(op) ==
  IF op = "lesion_levelset" THEN <<1>> ELSE DefaultShrinkFactors

\* One more iteration than the budget.
MayIterate_one_more(iter, iters) == iter <= iters

\* SetNumberOfIterations(iterations), numberOfIterations=iters.
MayIterate(iter, iters) == iter < iters

InitSolve ==
  /\ pc = "call"
  /\ ret = NoCall
  /\ NoMetricInputs
  /\ NoQuantInputs
  /\ NoGrowInputs
  /\ NoResampleInputs
  /\ NoSeedInputs
  /\ \E op \in Solvers, n \in 0..MaxIters :
       args = [op |-> op, iters |-> n]

\* Execute: the first level starts from the initial parameters.
SolverExecute ==
  /\ pc = "call"
  /\ pc' = "solving"
  /\ ret' = [level |-> 1, iter |-> 0, params |-> 0, starts |-> <<0>>,
             ends |-> <<>>, shrinks |-> <<ShrinkFactorsPerLevel(args.op)[1]>>]
  /\ UNCHANGED inputs

\* One iteration of the running level: the parameters move by one step or
\* stay.
SolverIterate ==
  /\ pc = "solving"
  /\ MayIterate(ret.iter, args.iters)
  /\ pc' = pc
  /\ \E p \in {ret.params - 1, ret.params, ret.params + 1} \cap Shifts :
       ret' = [ret EXCEPT !.iter = ret.iter + 1, !.params = p]
  /\ UNCHANGED inputs

\* The running level ends, converged or out of budget, and the next one
\* starts from its parameters.
SolverNextLevel ==
  /\ pc = "solving"
  /\ ret.level < Len(ShrinkFactorsPerLevel(args.op))
  /\ pc' = pc
  /\ ret' = [ret EXCEPT
       !.level = ret.level + 1, !.iter = 0,
       !.ends = Append(ret.ends, ret.params),
       !.starts = Append(ret.starts, ret.params),
       !.shrinks = Append(ret.shrinks, ShrinkFactorsPerLevel(args.op)[ret.level + 1])]
  /\ UNCHANGED inputs

\* The last level ends.
SolverStop ==
  /\ pc = "solving"
  /\ ret.level = Len(ShrinkFactorsPerLevel(args.op))
  /\ pc' = "solved"
  /\ ret' = [ret EXCEPT !.ends = Append(ret.ends, ret.params)]
  /\ UNCHANGED inputs

NextSolve == SolverExecute \/ SolverIterate \/ SolverNextLevel \/ SolverStop

SpecSolve == InitSolve /\ [][NextSolve]_vars

\* A call of bspline_deformable with no initial transform or a rigid one, or
\* a run of the register_pair script with or without --bspline.
InitRegister ==
  /\ pc = "call"
  /\ ret = NoCall
  /\ NoMetricInputs
  /\ NoQuantInputs
  /\ NoGrowInputs
  /\ NoResampleInputs
  /\ NoSeedInputs
  /\ \E tx \in {NoTransform} \cup {Euler3DTransform(t) : t \in Shifts} :
       \E b \in BOOLEAN : args = [initial_transform |-> tx, do_bspline |-> b]

BsplineDeformable ==
  /\ pc = "call"
  /\ pc' = "bspline_deformable"
  /\ ret' \in bspline_deformable(args.initial_transform)
  /\ UNCHANGED inputs

RigidMi ==
  /\ pc = "call"
  /\ pc' = "rigid_mi"
  /\ ret' \in rigid_mi
  /\ UNCHANGED inputs

RegisterPair ==
  /\ pc = "call"
  /\ pc' = "register_pair"
  /\ ret' \in register_pair(args.do_bspline)
  /\ UNCHANGED inputs

Next == Dice \/ Jaccard \/ Precision \/ Recall \/ Hausdorff95

Spec == Init /\ [][Next]_vars

SpecSelf == InitSelf /\ [][Next]_vars

SpecPercent == InitPercent /\ [][PercentInfected]_vars

SpecLesion == InitLesion /\ [][LesionStats]_vars

SpecSeeds == InitSeeds /\ [][AutoLungSeeds]_vars

SpecGrow == InitGrow /\ [][LungMaskRegionGrowing]_vars

SpecKeep == InitKeep /\ [][LungMaskRegionGrowing]_vars

NextReport == PercentInfected \/ LesionStats \/ MainReport

SpecReport == InitReport /\ [][NextReport]_vars

NextRegister == RigidMi \/ BsplineDeformable \/ RegisterPair

SpecRegister == InitRegister /\ [][NextRegister]_vars

NextResample == ResampleIsotropic \/ ResampleIsotropicAgain

SpecResample == InitResample /\ [][NextResample]_vars

(* ---------------- properties: seg_metrics.py ---------------- *)

A_set == NonZero(a_mask)
B_set == NonZero(b_mask)

\* Equality of two results n/(d + 1e-8) with integers n, d >= 0.
RatioEpsEq(x, y) ==
  /\ x.kind = "ratio_eps" /\ y.kind = "ratio_eps"
  /\ \/ x.num = 0 /\ y.num = 0
     \/ x.num = y.num /\ x.den = y.den

IsOne(r) == r.kind = "ratio" /\ r.num = r.den
IsZero(r) == r.kind = "ratio" /\ r.num = 0

\* C1: precision(a,b) = |A n B| / (|A n B| + |A \ B| + 1e-8): the false
\* positives are the voxels set in a and not in b.
C1_PrecisionCountsPredictedOnly ==
  pc = "precision" =>
    RatioEpsEq(ret, RatioEps(Cardinality(A_set \cap B_set),
                             Cardinality(A_set \cap B_set) + Cardinality(A_set \ B_set)))

\* C2: recall(a,b) = |A n B| / (|A n B| + |B \ A| + 1e-8): the false
\* negatives are the voxels set in b and not in a.
C2_RecallCountsTruthOnly ==
  pc = "recall" =>
    RatioEpsEq(ret, RatioEps(Cardinality(A_set \cap B_set),
                             Cardinality(A_set \cap B_set) + Cardinality(B_set \ A_set)))

\* C6: for every mask A, the empty one included, dice(A,A) = 1.0 and
\* jaccard(A,A) = 1.0.
C6_SelfOverlapIsOne ==
  (pc \in {"dice", "jaccard"} /\ a_mask = b_mask) => IsOne(ret)

\* C7: for all non-empty masks A and B sharing no non-zero voxel,
\* dice(A,B) = 0.0.
C7_DiceDisjointIsZero ==
  (pc = "dice" /\ A_set # {} /\ B_set # {} /\ A_set \cap B_set = {}) => IsZero(ret)

C7_Witness ==
  /\ pc = "dice"
  /\ Cardinality(A_set) = 2 /\ Cardinality(B_set) = 1
  /\ A_set \cap B_set = {}
  /\ IsZero(ret)

RECURSIVE ISqrtBetween(_, _, _)
ISqrtBetween(n, lo, hi) ==
  IF lo >= hi THEN lo
  ELSE LET mid == (lo + hi + 1) \div 2
       IN  IF mid * mid <= n THEN ISqrtBetween(n, mid, hi)
           ELSE ISqrtBetween(n, lo, mid - 1)

\* floor(1000 * sqrt(sq)) for a squared distance sq <= 2000.
MilliSqrt(sq) == ISqrtBetween(sq * 1000000, 0, 46340)

\* A Lerp result in thousandths of a millimetre, within 2 units.
Milli(l) ==
  MilliSqrt(l.lo) + (l.frac * (MilliSqrt(l.hi) - MilliSqrt(l.lo))) \div 100

\* Two distances that differ by at most 0.005 mm.
Close(x, y) == Abs(Milli(x) - Milli(y)) <= 5

\* The 95th percentile of the pool that holds one distance for every surface
\* voxel of either mask, the zero distances included.
PooledHausdorff95(am, bm) ==
  LET a == _binarize(am)
      b == _binarize(bm)
      a_dt == AbsDistanceMapSq(a)
      b_dt == AbsDistanceMapSq(b)
      vals == Merge(SortedValues(a_dt, NonZero(LabelContour(b))),
                    SortedValues(b_dt, NonZero(LabelContour(a))))
  IN  IF Len(vals) = 0 THEN Lerp(0, 0, 0) ELSE Percentile(vals, 95)

\* C8: hausdorff95(a,b) is the 95th percentile of the pooled distances of all
\* surface voxels of A and of B, surface voxels at distance zero included; it
\* is 0.0 when both masks are empty.
C8_Hausdorff95PoolsEverySurfaceVoxel ==
  pc = "hausdorff95" =>
    /\ Close(ret, PooledHausdorff95(a_mask, b_mask))
    /\ (A_set = {} /\ B_set = {}) => ret = Lerp(0, 0, 0)

\* C9: for every mask A, hausdorff95(A,A) = 0.0.
C9_Hausdorff95SelfIsZero ==
  (pc = "hausdorff95" /\ a_mask = b_mask) => ret = Lerp(0, 0, 0)

\* A mask with surface voxels and a voxel that is not a surface voxel.
C9_Witness ==
  /\ pc = "hausdorff95" /\ a_mask = b_mask
  /\ NonZero(LabelContour(_binarize(a_mask))) # {}
  /\ NonZero(LabelContour(_binarize(a_mask))) # A_set
  /\ ret = Lerp(0, 0, 0)

(* ---------------- properties: quantify.py ---------------- *)

Lung_set == NonZero(lung_mask)
\* The infection voxels inside the lung.
InLung_set == NonZero(infection_mask) \cap Lung_set

\* The voxels of D whose face-connected component in D has at least n voxels.
InComponentsOfAtLeast(D, n) == {v \in D : Cardinality(Reach({v}, D, FALSE)) >= n}

\* The face-connected components of D, as a set of voxel sets.
ComponentSet(D) == {Reach({v}, D, FALSE) : v \in D}

\* C3: percent_infected is in [0,100] whenever the lung mask has a voxel set,
\* and is exactly 0.0 when it has none.
C3_PercentInRange ==
  pc = "percent_infected" =>
    /\ ret.kind = "ratio" /\ ret.den > 0
    /\ 0 <= ret.num /\ ret.num <= 100 * ret.den
    /\ Lung_set = {} => ret = Ratio(0, 1)

\* Infection inside and outside the lung, and a result strictly between 0 and 100.
C3_Witness ==
  /\ pc = "percent_infected"
  /\ Lung_set # {}
  /\ NonZero(infection_mask) \ Lung_set # {}
  /\ 0 < ret.num /\ ret.num < 100 * ret.den

\* C4: percent_infected = 100 * K / L, L the number of lung voxels and K the
\* number of voxels in the components of (infection n lung) that have at least
\* min_cc_vox voxels.
C4_PercentFormula ==
  (pc = "percent_infected" /\ Lung_set # {}) =>
    /\ ret.kind = "ratio" /\ ret.den > 0
    /\ ret.num * Cardinality(Lung_set)
         = 100 * Cardinality(InComponentsOfAtLeast(InLung_set, min_cc_vox)) * ret.den

\* A connected infection of three voxels that the lung mask cuts into two
\* single voxels: with min_cc_vox = 1 both are kept (size exactly min_cc_vox),
\* the voxel outside the lung is not counted.
C4_Witness ==
  /\ pc = "percent_infected"
  /\ min_cc_vox = 1
  /\ Cardinality(ComponentSet(NonZero(infection_mask))) = 1
  /\ Cardinality(NonZero(infection_mask)) = 3
  /\ Cardinality(ComponentSet(InLung_set)) = 2
  /\ ret.num * Cardinality(Lung_set) = 200 * ret.den

\* C5: lesion_stats returns the number of connected components, the number
\* of non-zero voxels and that number times the voxel volume over 1000; the
\* two blobs of 100 and 50 voxels at 1 mm^3 give 2, 150 and 0.15.
C5_LesionStats ==
  pc = "lesion_stats" =>
    /\ ret.lesion_count = Cardinality(ComponentSet(NonZero(infection_mask)))
    /\ ret.total_voxels = Cardinality(NonZero(infection_mask))
    /\ ret.total_volume_ml.kind = "ratio"
    /\ ret.total_volume_ml.num * 1000
         = ret.total_voxels * infection_mask.spacing[1] * infection_mask.spacing[2]
             * infection_mask.spacing[3] * ret.total_volume_ml.den
    /\ infection_mask = BlobMask =>
         /\ ret.lesion_count = 2
         /\ ret.total_voxels = 150
         /\ ret.total_volume_ml.num * 100 = 15 * ret.total_volume_ml.den

C5_Witness ==
  /\ pc = "lesion_stats"
  /\ infection_mask = BlobMask
  /\ ret.lesion_count = 2 /\ ret.total_voxels = 150

(* ---------------- properties: auto_seed.py ---------------- *)

InBounds(im, s) ==
  /\ DOMAIN s = 1..3
  /\ \A i \in 1..3 : s[i] \in Int /\ 0 <= s[i] /\ s[i] <= im.size[i] - 1

\* C10: for every volume of size at least 1 along each axis and every branch
\* of the fallback chain, auto_lung_seeds returns exactly two seeds, each an
\* integer index inside the image on every axis.
C10_TwoSeedsInBounds ==
  pc = "auto_lung_seeds" =>
    /\ Len(ret) = 2
    /\ \A k \in 1..2 : InBounds(img, ret[k])

\* Both seeds of the single-component branch, neither of them clamped.
C10_Witness ==
  /\ pc = "auto_lung_seeds"
  /\ Len(ret) = 2
  /\ ret[1][1] > 0 /\ ret[2][1] = ret[1][1] + 40 /\ ret[2][1] < img.size[1] - 1

\* The air mask after closing and hole filling (steps 1-2).
CleanedAir ==
  BinaryFillhole(
    BinaryMorphologicalClosing(BinaryThreshold(img, -1000, air_hu), ClosingKernel),
    TRUE, 2)

\* The components of the cleaned air mask with at least min_cc_vox voxels.
Surviving ==
  LET D == NonZero(CleanedAir)
  IN  {C \in ComponentSet(D) : Cardinality(C) >= min_cc_vox}

\* The centroid of the voxel set C as a voxel index (rounded half up),
\* clamped to the image.
ClampedCentroid(C) ==
  LET n == Cardinality(C)
  IN  [i \in 1..3 |->
        Max(0, Min((2 * SumCoord(C, i) + n) \div (2 * n), img.size[i] - 1))]

\* C11: when at least two components of the cleaned air mask have at least
\* min_cc_vox voxels, auto_lung_seeds returns the clamped centroid indices of
\* the two components with the most voxels, the larger one first.
C11_TwoLargestCentroids ==
  pc = "auto_lung_seeds" =>
    LET surv == Surviving
    IN  Cardinality(surv) >= 2 =>
          \E A \in surv : \E B \in surv \ {A} :
            /\ Cardinality(A) >= Cardinality(B)
            /\ \A C \in surv \ {A, B} : Cardinality(B) >= Cardinality(C)
            /\ ret = <<ClampedCentroid(A), ClampedCentroid(B)>>

\* Three surviving components, the largest of them not the first in raster
\* order.
C11_Witness ==
  /\ pc = "auto_lung_seeds"
  /\ Cardinality(Surviving) = 3
  /\ \E A \in Surviving : \E B \in Surviving :
       /\ Cardinality(A) > Cardinality(B)
       /\ \E a \in A : \A b \in B : a[1] > b[1]
       /\ ret[1] = ClampedCentroid(A)

\* The components of the mask re-thresholded at [-1000, -600] with at least
\* min_cc_vox voxels.
SurvivingRetry ==
  LET D == NonZero(BinaryThreshold(img, -1000, -600))
  IN  {C \in ComponentSet(D) : Cardinality(C) >= min_cc_vox}

\* The seeds 25 voxels either side of the geometric centre along x, clamped.
GeometricCentreSeeds ==
  LET mid == [i \in 1..3 |-> img.size[i] \div 2]
  IN  << <<Max(mid[1] - 25, 0), mid[2], mid[3]>>,
         <<Min(mid[1] + 25, img.size[1] - 1), mid[2], mid[3]>> >>

\* The seeds 20 voxels either side of the clamped centroid of C along x,
\* clamped.
OffsetSeeds(C) ==
  LET c == ClampedCentroid(C)
  IN  << <<Max(c[1] - 20, 0), c[2], c[3]>>,
         <<Min(c[1] + 20, img.size[1] - 1), c[2], c[3]>> >>

\* C12: when no component of the first air mask reaches min_cc_vox voxels,
\* the seeds are those of the decision tree applied to the components of the
\* mask re-thresholded at [-1000, -600] that have at least min_cc_vox voxels;
\* the geometric-centre seeds are returned when none of them has.
C12_RetryDiscardsSmallComponents ==
  pc = "auto_lung_seeds" =>
    LET surv == Surviving
        retry == SurvivingRetry
    IN  surv = {} =>
          /\ retry = {} => ret = GeometricCentreSeeds
          /\ Cardinality(retry) = 1 => \E C \in retry : ret = OffsetSeeds(C)
          /\ Cardinality(retry) >= 2 =>
                \E A \in retry : \E B \in retry \ {A} :
                  /\ Cardinality(A) >= Cardinality(B)
                  /\ \A C \in retry \ {A, B} : Cardinality(B) >= Cardinality(C)
                  /\ ret = <<ClampedCentroid(A), ClampedCentroid(B)>>

\* C13: when exactly one component survives the size filter (of the first
\* air mask, or of the re-thresholded mask when the first leaves none),
\* auto_lung_seeds returns the seeds 20 voxels either side of its clamped
\* centroid index along x, clamped, with the centroid's y and z.
C13_SingleComponentOffsets ==
  pc = "auto_lung_seeds" =>
    LET surv == Surviving
        one == IF surv # {} THEN surv ELSE SurvivingRetry
    IN  Cardinality(one) = 1 => \E C \in one : ret = OffsetSeeds(C)

(* ---------------- properties: region_growing.py ---------------- *)

\* C14: lung_mask_region_growing called with no seed raises ValueError,
\* whatever the other arguments, having run no filter and returning no mask.
C14_EmptySeedsRaise ==
  (pc = "lung_mask_region_growing" /\ seeds = <<>>) =>
    /\ ret.raised = "ValueError"
    /\ ret.calls = <<>>
    /\ ret.value = NoImage

\* A call with no seed, the default band and clean-up, on a volume with
\* voxels of lung density.
C14_Witness ==
  /\ pc = "lung_mask_region_growing"
  /\ seeds = <<>>
  /\ ret.raised = "ValueError"
  /\ lower = DefaultLower /\ upper = DefaultUpper
  /\ closing_radius = DefaultClosingRadius /\ fill_holes
  /\ \E v \in DOMAIN img.pix : img.pix[v] = LungHu

\* The voxels with a sample in [lower, upper], and the seeds as a set.
InBand == {v \in DOMAIN img.pix : lower <= img.pix[v] /\ img.pix[v] <= upper}
SeedSet == {seeds[i] : i \in 1..Len(seeds)}

\* The seeds lie in one region of in-band voxels, connected by the grid
\* adjacency named (across faces only, or across faces, edges and corners).
SeedsInOneRegion(fullyConnected) ==
  /\ SeedSet # {}
  /\ SeedSet \subseteq InBand
  /\ \E s \in SeedSet : SeedSet \subseteq Reach({s}, InBand, fullyConnected)

DefaultCleanup ==
  /\ closing_radius = DefaultClosingRadius
  /\ keep_largest = DefaultKeepLargest
  /\ fill_holes

\* The raw flood-fill set of the call, before any clean-up.
RawFill == NonZero(ConnectedThreshold(img, seeds, lower, upper))

\* C15: when all seeds lie inside one connected region of in-band voxels
\* (connected by the 26-adjacency the flood fill is specified with), the mask
\* returned with the default clean-up contains every voxel of the raw
\* flood-fill set.
C15_CleanupKeepsFloodFill ==
  (pc = "lung_mask_region_growing" /\ DefaultCleanup /\ SeedsInOneRegion(TRUE)) =>
    /\ ret.raised = "none"
    /\ RawFill \subseteq NonZero(ret.value)

\* Every voxel of the volume has the same sample, inside [lower, upper], and
\* the only seed is the centre voxel.
ConstantInBandSeededAtCentre ==
  /\ \A v, w \in DOMAIN img.pix : img.pix[v] = img.pix[w]
  /\ InBand = DOMAIN img.pix
  /\ seeds = << [i \in 1..3 |-> img.size[i] \div 2] >>

\* C16: for a volume whose every voxel has the same value inside
\* [lower, upper] and a seed at its centre, lung_mask_region_growing returns a
\* mask in which every voxel of the volume is set.
C16_ConstantVolumeFilled ==
  (pc = "lung_mask_region_growing" /\ ConstantInBandSeededAtCentre) =>
    /\ ret.raised = "none"
    /\ \A v \in DOMAIN img.pix : ret.value.pix[v] = 1

\* A cube of lung density grown from its centre with the default band and
\* clean-up.
C16_Witness ==
  /\ pc = "lung_mask_region_growing"
  /\ ConstantInBandSeededAtCentre
  /\ Cardinality(DOMAIN img.pix) > Cardinality(BallKernel(<<1, 1, 1>>))
  /\ img.size[1] = img.size[3]
  /\ lower = DefaultLower /\ upper = DefaultUpper /\ DefaultCleanup
  /\ \A v \in DOMAIN img.pix : img.pix[v] = LungHu /\ ret.value.pix[v] = 1

\* No clean-up step runs: the mask returned is the flood fill itself.
NoCleanup == closing_radius = 0 /\ keep_largest = 0 /\ ~fill_holes

\* C20: the flood fill uses 26-connectivity: an in-band voxel that touches
\* the grown region across a face, an edge or a corner belongs to the region
\* (observed on the mask returned when no clean-up step runs).
C20_FloodFill26Connected ==
  (pc = "lung_mask_region_growing" /\ seeds # <<>> /\ NoCleanup) =>
    \A v \in InBand :
      Neighbours(NonZero(ret.value), v, TRUE) # {} => ret.value.pix[v] = 1

(* ---------------- properties: resample.py ---------------- *)

\* n is the quotient num / den rounded to a nearest integer.
IsRounded(n, num, den) ==
  /\ 2 * (n * den - num) <= den
  /\ 2 * (num - n * den) <= den

\* C17: resample_isotropic gives every axis the size
\* round(oldSize * oldSpacing / targetSpacing), the spacing asked for and
\* the origin and direction of its input; at the input's own spacing the size
\* is the input's, and a second call at the same target spacing leaves the
\* size of the first result unchanged.
C17_ResampleSize ==
  [][/\ pc = "call" =>
          /\ \A i \in 1..3 :
               IsRounded(ret'.size[i], img.size[i] * img.spacing[i], out_spacing[i])
          /\ ret'.spacing = out_spacing
          /\ ret'.origin = img.origin
          /\ ret'.direction = img.direction
          /\ out_spacing = img.spacing => ret'.size = img.size
     /\ pc = "resample_isotropic" =>
          /\ ret'.size = ret.size
          /\ ret'.origin = img.origin
          /\ ret'.direction = img.direction]_vars

\* A grid resampled twice to a spacing that is not its own, its size changed
\* by the first call, one axis a tie between two sizes.
C17_Witness ==
  /\ pc = "resample_isotropic_again"
  /\ out_spacing # img.spacing
  /\ ret.size # img.size
  /\ \E i \in 1..3 : 2 * ((img.size[i] * img.spacing[i]) % out_spacing[i]) = out_spacing[i]
  /\ img.origin # <<0, 0, 0>>

(* ---------------- properties: degenerate inputs ---------------- *)

\* r is a number, not an exception, and 0 <= r <= 100.
IsPercentage(r) ==
  r.kind = "ratio" /\ r.den > 0 /\ 0 <= r.num /\ r.num <= 100 * r.den

\* r is a number and r >= 0.
IsNonNegative(r) == r.kind = "ratio" /\ r.den > 0 /\ r.num >= 0

ReportFields == {"percent_infected", "lesion_count", "total_voxels", "total_volume_ml"}

\* C18: for an infection mask with no voxel set, percent_infected returns 0.0
\* and lesion_stats returns lesion_count 0, total_voxels 0 and
\* total_volume_ml 0.0; the report of the pipeline always holds the fields
\* percent_infected, in [0, 100], and lesion_count, total_voxels and
\* total_volume_ml, each at least 0.
C18_DegenerateSentinels ==
  /\ (pc = "percent_infected" /\ NonZero(infection_mask) = {}) =>
       IsPercentage(ret) /\ ret.num = 0
  /\ (pc = "lesion_stats" /\ NonZero(infection_mask) = {}) =>
       /\ ret.lesion_count = 0
       /\ ret.total_voxels = 0
       /\ IsNonNegative(ret.total_volume_ml) /\ ret.total_volume_ml.num = 0
  /\ pc = "main" =>
       /\ ReportFields \subseteq DOMAIN ret
       /\ IsPercentage(ret.percent_infected)
       /\ ret.lesion_count \in Nat
       /\ ret.total_voxels \in Nat
       /\ IsNonNegative(ret.total_volume_ml)

\* The report for an empty lung mask and an empty infection mask.
C18_Witness ==
  /\ pc = "main"
  /\ NonZero(infection_mask) = {}
  /\ NonZero(lung_mask) = {}
  /\ ret.percent_infected = Ratio(0, 1)
  /\ ret.lesion_count = 0 /\ ret.total_voxels = 0

\* C21: a seed outside [lower, upper] still starts the flood: each in-band
\* face neighbour of a seed, and everything reachable from it, is in the
\* flood fill (observed on the mask returned when no clean-up step runs).
C21_OutOfBandSeedStartsFlood ==
  (pc = "lung_mask_region_growing" /\ seeds # <<>> /\ NoCleanup) =>
    \A s \in SeedSet : \A n \in Neighbours(InBand, s, FALSE) :
      Reach({n}, InBand, FALSE) \subseteq NonZero(ret.value)

\* The flood fill after the closing and the hole filling the call asks for,
\* before any component is dropped.
BeforeKeep ==
  LET seg0 == ConnectedThreshold(img, seeds, lower, upper)
      seg1 == IF closing_radius > 0
                THEN BinaryMorphologicalClosing(seg0,
                       BallKernel(<<closing_radius, closing_radius, closing_radius>>))
                ELSE seg0
  IN  NonZero(IF fill_holes THEN BinaryFillhole(seg1, TRUE, 1) ELSE seg1)

\* C22: with keep_largest = k > 0 the mask returned has at most k connected
\* components, each a component of the mask before the step and with at
\* least as many voxels as every component dropped; with keep_largest = 0 no
\* component is dropped.
C22_KeepLargest ==
  (pc = "lung_mask_region_growing" /\ ret.raised = "none") =>
    LET before == ComponentSet(BeforeKeep)
        kept == ComponentSet(NonZero(ret.value))
    IN  /\ kept \subseteq before
        /\ keep_largest > 0 =>
             /\ Cardinality(kept) <= keep_largest
             /\ \A A \in kept : \A B \in before \ kept :
                  Cardinality(A) >= Cardinality(B)
        /\ keep_largest = 0 => kept = before

\* Two components kept and a smaller one dropped, the largest of them not
\* the first in raster order.
C22_Witness ==
  /\ pc = "lung_mask_region_growing"
  /\ ret.raised = "none"
  /\ keep_largest = DefaultKeepLargest
  /\ LET before == ComponentSet(BeforeKeep)
         kept == ComponentSet(NonZero(ret.value))
     IN  /\ Cardinality(kept) = keep_largest
         /\ \E B \in before \ kept : \E A \in kept :
              /\ Cardinality(A) > Cardinality(B)
              /\ \A a \in A : \A b \in B : a[1] > b[1]

(* ---------------- properties: registration ---------------- *)

\* C23: with a rigid initial transform, bspline_deformable returns a
\* two-stage composition that keeps a rigid first stage and maps a sampled
\* point through the rigid stage first and the B-spline displacement on top;
\* the register_pair flow with --bspline ends with such a composition.
C23_RigidThenBspline ==
  /\ (pc = "bspline_deformable" /\ args.initial_transform.type = "Euler3D") =>
       /\ ret.raised = "none"
       /\ ret.transform.type = "Composite"
       /\ Len(ret.transform.stages) = 2
       /\ ret.transform.stages[1].type = "Euler3D"
       /\ ret.transform.stages[2].type = "BSpline"
       /\ \A x \in FixedDomain :
            TransformPoint(ret.transform, x) =
              TransformPoint(ret.transform.stages[2],
                             TransformPoint(ret.transform.stages[1], x))
  /\ (pc = "register_pair" /\ args.do_bspline) =>
       /\ ret.raised = "none"
       /\ ret.transform.type = "Composite"
       /\ ret.transform.stages[1].type = "Euler3D"

(* ---------------- properties: run_pipeline.py ---------------- *)

\* The calls of a complete run of main, with the automatic seeding when the
\* configuration lists no seeds.
StageOrder ==
  <<"read_dicom_series", "Clamp", "resample_isotropic", "clip_and_norm">>
  \o (IF args.seeds = <<>> THEN <<"auto_lung_seeds">> ELSE <<>>)
  \o <<"lung_mask_region_growing", "BinaryThreshold", "lesion_levelset",
       "percent_infected", "lesion_stats",
       "write_nifti", "write_nifti", "write_nifti">>
  \o (IF args.save_overlay THEN <<"save_overlay">> ELSE <<>>)

InMain == pc \notin {"call"}

\* C24: the pipeline runs preprocess, seeds, region-growing lung mask,
\* threshold-based infection seed, level set, quantification, outputs in this
\* order; automatic seeding runs only when the configuration supplies no
\* seeds (listed seeds are used as they are); the initial infection mask lies
\* inside the lung mask; the report is written only after both
\* percent_infected and lesion_stats have been computed.
C24_PipelineOrder ==
  InMain =>
    /\ Len(ret.calls) <= Len(StageOrder)
    /\ ret.calls = SubSeq(StageOrder, 1, Len(ret.calls))
    /\ (args.seeds # <<>> /\ pc \notin {"main_preprocess", "main_raised"}) =>
         ret.seeds = args.seeds
    /\ pc \in {"main_infection_init", "main_levelset", "main_percent_infected",
               "main_lesion_stats", "main_outputs", "main_report", "main_done"} =>
         NonZero(ret.infection_init) \subseteq NonZero(ret.lung)
    /\ (\E i \in 1..Len(ret.written) : ret.written[i] = "report.json") =>
         /\ \E i \in 1..Len(ret.calls) : ret.calls[i] = "percent_infected"
         /\ \E i \in 1..Len(ret.calls) : ret.calls[i] = "lesion_stats"
         /\ ret.report.percent_infected =
              percent_infected(ret.lung, ret.infection, args.min_lesion_cc)
         /\ ret.report.lesion_count = lesion_stats(ret.infection).lesion_count

\* A complete run with listed seeds, a non-empty initial infection mask inside
\* a lung mask that is not the whole volume, and the report written.
C24_Witness ==
  /\ pc = "main_done"
  /\ args.seeds # <<>>
  /\ ret.calls = StageOrder
  /\ NonZero(ret.infection_init) # {}
  /\ NonZero(ret.thr) \ NonZero(ret.lung) # {}
  /\ ret.written[4] = "report.json"

(* ---------------- properties: iteration budgets ---------------- *)

C26_InputsUntouched ==
  (pc \in {"frame_running", "frame_returned"} /\ args.op \in CoreOperations) =>
    /\ \A i \in 1..(Len(Params(args.op)) + 1) : ret.heap[i] = 0
    /\ ~ret.random

\* percent_infected has returned, having changed in place an object of its
\* own (the image it builds from the kept components).
C26_Witness ==
  /\ pc = "frame_returned"
  /\ args.op = "percent_infected"
  /\ args.opt
  /\ \E i \in 1..Len(ret.heap) : ret.heap[i] > 0

(* ---------------- properties: series selection ---------------- *)

\* The series of the folder that have files, and among them the pool the
\* choice is made from: the CT series when there is one, else all.
WithFiles == {i \in 1..Len(args.folder) : args.folder[i].files > 0}
IsCtSeries(i) == Upper(args.folder[i].modality) = CT
Pool ==
  IF \E i \in WithFiles : IsCtSeries(i) THEN {i \in WithFiles : IsCtSeries(i)}
  ELSE WithFiles
MarkedScout(i) == IsScout(Upper(args.folder[i].desc))
Score(i) == args.folder[i].files - (IF MarkedScout(i) THEN ScoutPenalty ELSE 0)

C30_SelectionsAgree ==
  /\ pc = "best_series_in_dir" => ret = pick_best_ct_series(args.folder)
  /\ pc = "pick_best_ct_series" => ret = best_series_in_dir(args.folder)

\* best_series_in_dir has passed over a series with more files whose
\* description holds TOP but neither SCOUT nor LOCALIZER.
C30_Witness ==
  /\ pc = "best_series_in_dir"
  /\ ret # NoSeries
  /\ \E i \in Pool :
       /\ args.folder[i].files > ret.files
       /\ Contains(Upper(args.folder[i].desc), TOP)
       /\ ~Contains(Upper(args.folder[i].desc), SCOUT)
       /\ ~Contains(Upper(args.folder[i].desc), LOCALIZER)

(* ---------------- properties: report and size threshold ---------------- *)

\* The infection voxels percent_infected counts: those of the infection
\* inside the lung whose component there has at least min_cc_vox voxels.
Counted == InComponentsOfAtLeast(InLung_set, min_cc_vox)

\* C28: in every report built from one lung mask and one infection mask,
\* percent_infected > 0 implies lesion_count >= 1 and total_voxels at least
\* the number of infection voxels percent_infected counts.
C28_PositivePercentHasLesions ==
  (pc = "main" /\ ret.percent_infected.num > 0) =>
    /\ ret.lesion_count >= 1
    /\ ret.total_voxels >= Cardinality(Counted)
    /\ ret.percent_infected.num * Cardinality(Lung_set)
         = 100 * Cardinality(Counted) * ret.percent_infected.den

\* A report with a positive percentage whose lesion statistics count more:
\* voxels outside the lung or in components below the threshold, and more
\* components than percent_infected kept.
C28_Witness ==
  /\ pc = "main"
  /\ ret.percent_infected.num > 0
  /\ ret.total_voxels > Cardinality(Counted)
  /\ ret.lesion_count > Cardinality(ComponentSet(Counted))

\* The thresholds compared: from below 1 to above the largest one drawn.
Thresholds == (0 - 1)..(MaxMinCcVox + 1)

\* x >= y for two results of percent_infected.
RatioGeq(x, y) ==
  /\ x.kind = "ratio" /\ y.kind = "ratio" /\ x.den > 0 /\ y.den > 0
  /\ x.num * y.den >= y.num * x.den

\* C29: for fixed masks percent_infected is non-increasing in min_cc_vox, and
\* for every min_cc_vox <= 1 it is 100 * |infection n lung| / |lung| (the lung
\* mask having a voxel set).
C29_MonotoneInThreshold ==
  pc = "percent_infected" =>
    LET P == [m \in Thresholds |-> percent_infected(lung_mask, infection_mask, m)]
    IN  /\ ret = P[min_cc_vox]
        /\ \A m1, m2 \in Thresholds : m1 <= m2 => RatioGeq(P[m1], P[m2])
        /\ Lung_set # {} =>
             \A m \in Thresholds : m <= 1 =>
               P[m].num * Cardinality(Lung_set) = 100 * Cardinality(InLung_set) * P[m].den

\* Masks on which the percentage falls twice as the threshold grows: a
\* single voxel and a pair, both inside the lung.
C29_Witness ==
  /\ pc = "percent_infected"
  /\ LET P == [m \in Thresholds |-> percent_infected(lung_mask, infection_mask, m)]
     IN  /\ P[1].num * P[2].den > P[2].num * P[1].den
         /\ P[2].num * P[3].den > P[3].num * P[2].den

====
